---- MODULE Spec2Model ----
(***************************************************************************)
(* Brain Stroke Risk Prediction API (backend/app.py, backend/models.py,    *)
(* backend/ml_service.py) as a state machine.                              *)
(*                                                                         *)
(* The database is the two tables users and predictions.  A request is     *)
(* received, handled by its route's handler in one atomic step (Flask      *)
(* handles a request synchronously, one transaction per request) and then  *)
(* answered.  Probabilities are in hundredths (0.3 is 30); patient values  *)
(* (age, glucose, BMI) are whole numbers in their own units.               *)
(***************************************************************************)
EXTENDS Integers, Sequences, FiniteSets, TLC

VARIABLES
    users,          \* table users: id -> row
    predictions,    \* table predictions: id -> row
    nextUserId,     \* next value of the users.id sequence
    nextPredId,     \* next value of the predictions.id sequence
    now,            \* datetime.utcnow()
    response,       \* the request being served and, once handled, its answer
    ML_SERVICE_AVAILABLE,   \* app.py: whether ml_service could be imported
    probability,    \* argument of the score classifiers (SpecRisk)
    risk_level,     \* result of _classify_risk_level (SpecRisk)
    confidence,     \* result of _calculate_confidence (SpecRisk)
    _predictor,     \* ml_service.py: the global predictor instance
    patient,        \* the patient_data a function of the predictor is given
    processed_features, \* what preprocess_features computed from it
    identified,     \* result of _identify_risk_factors
    recommended,    \* result of _generate_recommendations
    threads,        \* the threads that call into ml_service, each at its line
    constructed,    \* how often StrokeRiskPredictor() has been evaluated
    calls           \* the calls of ml_service that have returned, in order

vars == <<users, predictions, nextUserId, nextPredId, now, response,
          ML_SERVICE_AVAILABLE, probability, risk_level, confidence,
          _predictor, patient, processed_features, identified, recommended,
          threads, constructed, calls>>

db == <<users, predictions, nextUserId, nextPredId>>
service == <<threads, constructed, calls>>
ml == <<_predictor, patient, processed_features, identified, recommended, service>>
risk == <<ML_SERVICE_AVAILABLE, probability, risk_level, confidence, ml>>

(***************************************************************************)
(* Bounds of the model.                                                    *)
(***************************************************************************)
MaxUsers == 2       \* rows ever inserted into users
MaxPreds == 2       \* rows ever inserted into predictions
MaxTime == 1        \* days the clock runs past its first day
MaxThreads == 2     \* threads that call into ml_service at the same time
MaxCalls == 3       \* calls of predict_stroke_risk and get_predictor_info
MaxRows == 2        \* rows of predictions when statistics is asked (SpecStatistics)

(***************************************************************************)
(* The calendar.  A time is a day of the year, counted from 1 (January 1). *)
(***************************************************************************)
DaysInMonth == <<31, 28, 31, 30, 31, 30, 31, 31, 30, 31, 30, 31>>

RECURSIVE DaysBefore(_)
DaysBefore(m) == IF m <= 1 THEN 0 ELSE DaysBefore(m - 1) + DaysInMonth[m - 1]

DayOfYear(m, d) == DaysBefore(m) + d
MonthOf(t) == CHOOSE m \in 1..12 : DaysBefore(m) < t /\ t <= DaysBefore(m) + DaysInMonth[m]
DayOf(t) == t - DaysBefore(MonthOf(t))

\* the day the server starts on
FirstDay == DayOfYear(6, 9)
Times == FirstDay..(FirstDay + MaxTime)

\* datetime.replace(month=m, day=d) raises ValueError when there is no such date
replace_raises(m, d) == m < 1 \/ m > 12 \/ d < 1 \/ d > DaysInMonth[m]

\* get_user_statistics: week_ago, from today's date
week_ago_raises(t) ==
    IF DayOf(t) > 7 THEN FALSE ELSE replace_raises(MonthOf(t) - 1, 30)

week_ago(t) ==
    IF DayOf(t) > 7 THEN DayOfYear(MonthOf(t), DayOf(t) - 7)
    ELSE DayOfYear(MonthOf(t) - 1, 30)

\* A nullable DateTime column: NULL, or a time.
Never == [set |-> FALSE, at |-> 0]
At(t) == [set |-> TRUE, at |-> t]

(***************************************************************************)
(* Strings that are emails.  A string is a mailbox name, written in lower  *)
(* or upper case, possibly followed by white space, and well formed        *)
(* (local@domain.tld) or not.  empty is the empty string.                  *)
(***************************************************************************)
Email(n, up, w, f) == [name |-> n, upper |-> up, ws |-> w, fmt |-> f]
NoEmail == Email("", FALSE, "none", FALSE)

\* str.lower()
Lower(e) == [e EXCEPT !.upper = FALSE]

\* str.strip()
Strip(e) == [e EXCEPT !.ws = "none"]

\* Equality of two emails ignoring letter case.
SameIgnoringCase(e, f) == Lower(e) = Lower(f)

\* re.match(email_pattern, s): the pattern is anchored by ^ and $, and $
\* also matches before a newline that ends the string; a trailing blank
\* does not match.
email_pattern(e) == e.fmt /\ e.ws \in {"none", "newline"}

\* generate_password_hash / check_password_hash: the hash is not the
\* password, and a password checks against the hash made from it only.
generate_password_hash(pw) == [hashed |-> pw]
check_password_hash(h, pw) == h = generate_password_hash(pw)

(***************************************************************************)
(* models.py, class User                                                   *)
(***************************************************************************)
\* User.__init__ and the column defaults (is_active True, last_login NULL)
User(name, email, password) ==
    [name |-> name,
     email |-> Lower(email),
     password_hash |-> generate_password_hash(password),
     is_active |-> TRUE,
     last_login |-> Never]

\* a slip: the lookup without lower()
find_by_email_case_sensitive(email) == {u \in DOMAIN users : users[u].email = email}

\* User.find_by_email: the ids of the rows whose email is email.lower()
find_by_email(email) == {u \in DOMAIN users : users[u].email = Lower(email)}

\* a slip: any password accepted
check_password_any(u, password) == TRUE

\* User.check_password
check_password(u, password) == check_password_hash(users[u].password_hash, password)

\* User.query.get(user_id): the row's id, or 0 for None (ids start at 1)
query_get(user_id) == IF user_id \in DOMAIN users THEN user_id ELSE 0

(***************************************************************************)
(* The Authorization header of a request.  A header is absent, or is a     *)
(* string that starts with "Bearer " or not; the token behind "Bearer "    *)
(* starts with user_token_ or not, and its third part (split at "_") is    *)
(* the decimal text of a number or is not.                                 *)
(***************************************************************************)
Header(p, b, x, i, n) ==
    [present |-> p, bearer |-> b, prefix |-> x, isInt |-> i, id |-> n]
NoHeader == Header(FALSE, FALSE, FALSE, FALSE, 0)
BasicHeader == Header(TRUE, FALSE, FALSE, FALSE, 0)
Bearer(x, i, n) == Header(TRUE, TRUE, x, i, n)

\* the header with the token login builds: user_token_<id>_<timestamp>
access_token(u) == Bearer(TRUE, TRUE, u)

\* f"user_token_{user.id}_{timestamp}", as token.split('_') sees it
login_token(user_id, timestamp) == <<"user", "token", user_id, timestamp>>

\* a slip: the id read from the last part of the token
authorization_last_part(parts) ==
    Bearer(Len(parts) >= 3 /\ parts[1] = "user" /\ parts[2] = "token",
           TRUE, parts[Len(parts)])

\* the header "Bearer <token>" as the server reads it: the token starts
\* with user_token_ and int(parts[2]) is the id (parts are counted from 0)
authorization(parts) ==
    Bearer(Len(parts) >= 3 /\ parts[1] = "user" /\ parts[2] = "token",
           TRUE, parts[3])

AuthHeaders ==
    {NoHeader, BasicHeader, Bearer(FALSE, TRUE, 1), Bearer(TRUE, FALSE, 0)}
        \cup {access_token(u) : u \in 1..(MaxUsers + 1)}

\* a slip: the id of the token trusted without looking the user up
get_current_user_unchecked(h) ==
    IF h.present /\ h.bearer /\ h.prefix /\ h.isInt THEN h.id ELSE 0

\* a slip: the is_active flag not looked at
get_current_user_ignoring_active(h) ==
    IF h.present /\ h.bearer /\ h.prefix /\ h.isInt THEN query_get(h.id) ELSE 0

\* get_current_user: the id of the user, or 0 for None
get_current_user(h) ==
    IF ~h.present \/ ~h.bearer THEN 0
    ELSE IF ~h.prefix THEN 0
    ELSE IF ~h.isInt THEN 0                 \* int() raises, except: None
    ELSE IF query_get(h.id) # 0 /\ users[h.id].is_active THEN h.id
    ELSE 0

(***************************************************************************)
(* Requests and responses                                                  *)
(***************************************************************************)
\* response.before keeps the tables as they were when the request came in;
\* raised tells that the answer comes from the handler's except Exception
\* block, and rollback that db.session.rollback() was called in an except
\* block while the request was handled
Idle == [phase |-> "idle", handler |-> "", request |-> <<>>,
         status |-> 0, body |-> <<>>, before |-> <<>>,
         raised |-> FALSE, rollback |-> FALSE]

Received(h, r) == [phase |-> "received", handler |-> h, request |-> r,
                   status |-> 0, body |-> <<>>,
                   before |-> [users |-> users, predictions |-> predictions],
                   raised |-> FALSE, rollback |-> FALSE]

\* jsonify(body), status
Reply(status, body) == [response EXCEPT !.phase = "done", !.status = status,
                                        !.body = body]

\* the answer of a handler's except Exception block
Except(status, body, rollback) ==
    [response EXCEPT !.phase = "done", !.status = status, !.body = body,
                     !.raised = TRUE, !.rollback = rollback]

Serving(h) == response.phase = "received" /\ response.handler = h

(***************************************************************************)
(* POST /api/auth/signup                                                   *)
(***************************************************************************)
\* the first of name, email, password that is missing or empty, or ""
SignupMissing(data) ==
    IF data.name = "" THEN "Name"
    ELSE IF data.email = NoEmail THEN "Email"
    ELSE IF data.password = "" THEN "Password"
    ELSE ""

Signup ==
    /\ Serving("signup")
    /\ LET data == response.request IN
       IF ~data.is_json THEN
            /\ response' = Reply(400, [error |-> "Request must be JSON"])
            /\ UNCHANGED db
       ELSE IF SignupMissing(data) # "" THEN
            /\ response' = Reply(400, [error |-> SignupMissing(data)])
            /\ UNCHANGED db
       ELSE IF ~email_pattern(data.email) THEN
            /\ response' = Reply(400, [error |-> "Invalid email format"])
            /\ UNCHANGED db
       ELSE IF find_by_email(data.email) # {} THEN
            /\ response' = Reply(400, [error |-> "Email already registered"])
            /\ UNCHANGED db
       \* User.create_user(name.strip(), email.strip(), password)
       ELSE IF find_by_email(Strip(data.email)) # {} THEN
            \* raise ValueError, caught by except ValueError
            /\ response' = Reply(400, [error |-> "User with this email already exists"])
            /\ UNCHANGED db
       \* db.session.commit(): users.email is unique
       ELSE IF \E u \in DOMAIN users : users[u].email = Lower(Strip(data.email)) THEN
            /\ response' = Except(500, [error |-> "Registration failed"], TRUE)
            /\ UNCHANGED db
       ELSE /\ nextUserId <= MaxUsers
            /\ users' = [u \in DOMAIN users \cup {nextUserId} |->
                            IF u = nextUserId
                            THEN User(data.name, Strip(data.email), data.password)
                            ELSE users[u]]
            /\ nextUserId' = nextUserId + 1
            /\ response' = Reply(201, [user |-> nextUserId])
            /\ UNCHANGED <<predictions, nextPredId>>
    /\ UNCHANGED <<now, risk>>

(***************************************************************************)
(* POST /api/auth/login                                                    *)
(***************************************************************************)
\* user.update_last_login()
update_last_login(u) == [users EXCEPT ![u].last_login = At(now)]

Login ==
    /\ Serving("login")
    /\ LET data == response.request
           found == find_by_email(data.email)
       IN
       IF ~data.is_json THEN
            /\ response' = Reply(400, [error |-> "Request must be JSON"])
            /\ UNCHANGED users
       ELSE IF data.email = NoEmail \/ data.password = "" THEN
            /\ response' = Reply(400, [error |-> "Email and password required"])
            /\ UNCHANGED users
       ELSE IF found = {} THEN
            /\ response' = Reply(401, [error |-> "Invalid credentials"])
            /\ UNCHANGED users
       ELSE LET user == CHOOSE u \in found : TRUE IN
            IF ~check_password(user, data.password) THEN
                /\ response' = Reply(401, [error |-> "Invalid credentials"])
                /\ UNCHANGED users
            ELSE IF ~users[user].is_active THEN
                /\ response' = Reply(401, [error |-> "Account is deactivated"])
                /\ UNCHANGED users
            ELSE
                /\ users' = update_last_login(user)
                /\ response' = Reply(200, [access_token |-> authorization(login_token(user, now)),
                                           issued_at |-> now,
                                           user |-> user])
    /\ UNCHANGED <<predictions, nextUserId, nextPredId, now, risk>>

(***************************************************************************)
(* The server between requests, and the world around it                    *)
(***************************************************************************)
\* the response is sent; the server waits for the next request
Respond ==
    /\ response.phase = "done"
    /\ response' = Idle
    /\ UNCHANGED <<db, now, risk>>

\* time passes
Tick ==
    /\ response.phase = "idle"
    /\ now < FirstDay + MaxTime
    /\ now' = now + 1
    /\ UNCHANGED <<db, response, risk>>

\* the is_active column of a user is set or cleared (an administrator's
\* update: no route does it)
SetActive ==
    /\ response.phase = "idle"
    /\ \E u \in DOMAIN users :
            users' = [users EXCEPT ![u].is_active = ~users[u].is_active]
    /\ UNCHANGED <<predictions, nextUserId, nextPredId, now, response, risk>>

\* a slip: the relationship without its cascade
delete_user_no_cascade(u) ==
    /\ users' = [v \in DOMAIN users \ {u} |-> users[v]]
    /\ predictions' = predictions

\* db.session.delete(user); commit: the relationship User.predictions has
\* cascade='all, delete-orphan', so the user's predictions go with it
delete_user(u) ==
    /\ users' = [v \in DOMAIN users \ {u} |-> users[v]]
    /\ predictions' = [p \in {q \in DOMAIN predictions :
                                predictions[q].user_id # u} |-> predictions[p]]

\* a user is deleted through the ORM (an administrator's operation: no
\* route does it); response records it like a request that was served
DeleteUser ==
    /\ response.phase = "idle"
    /\ \E u \in DOMAIN users :
        /\ delete_user(u)
        /\ response' = [Received("delete_user", [user_id |-> u])
                            EXCEPT !.phase = "done"]
    /\ UNCHANGED <<nextUserId, nextPredId, now, risk>>

(***************************************************************************)
(* JSON values of a request body.  A key is absent, or holds null, a       *)
(* number, a string that is no number, or NaN (json.loads reads the        *)
(* literal NaN, and float() reads the string "nan").                       *)
(***************************************************************************)
Absent == [k |-> "absent", n |-> 0, s |-> ""]
Null == [k |-> "null", n |-> 0, s |-> ""]
Num(n) == [k |-> "num", n |-> n, s |-> ""]
Text(s) == [k |-> "text", n |-> 0, s |-> s]
NaN == [k |-> "nan", n |-> 0, s |-> ""]

\* data.get(key, default)
Get(data, key, default) == IF data[key].k = "absent" THEN default ELSE data[key]

\* float(v) raises ValueError or TypeError
float_raises(v) == v.k \in {"text", "null", "absent"}

\* v < n and v > n on floats: every comparison with NaN is False
Lt(v, n) == v.k = "num" /\ v.n < n
Gt(v, n) == v.k = "num" /\ v.n > n

\* int(bool(v))
int_bool(v) ==
    IF v.k = "num" THEN (IF v.n # 0 THEN 1 ELSE 0)
    ELSE IF v.k = "text" THEN (IF v.s # "" THEN 1 ELSE 0)
    ELSE IF v.k = "nan" THEN 1
    ELSE 0

\* str(v); the text of a number is no category name
str(v) ==
    IF v.k = "text" THEN v.s
    ELSE IF v.k = "null" THEN "None"
    ELSE IF v.k = "nan" THEN "nan"
    ELSE "<number>"

required_fields ==
    <<"age", "gender", "hypertension", "heart_disease", "ever_married",
      "work_type", "avg_glucose_level", "bmi", "smoking_status">>

optional_fields ==
    {"residence_type", "Residence_type", "family_history_stroke",
     "alcohol_consumption"}

Fields == {required_fields[i] : i \in DOMAIN required_fields} \cup optional_fields

\* not data: the body is the empty object
IsEmptyBody(data) == \A f \in Fields : data[f].k = "absent"

\* a slip: null values not taken as missing
IsMissing_absent_only(data, field) == data[field].k = "absent"

\* field not in data or data[field] is None
IsMissing(data, field) == data[field].k \in {"absent", "null"}

\* the loop over required_fields that appends the missing ones
RECURSIVE missing_from(_, _)
missing_from(data, i) ==
    IF i > Len(required_fields) THEN <<>>
    ELSE (IF IsMissing(data, required_fields[i])
          THEN <<required_fields[i]>> ELSE <<>>) \o missing_from(data, i + 1)

missing_fields(data) == missing_from(data, 1)

\* a slip: the upper bounds themselves rejected
RangeError_exclusive(data) ==
    IF float_raises(data["age"]) THEN "Invalid numeric values"
    ELSE IF Lt(data["age"], 0) \/ ~Lt(data["age"], 120)
        THEN "Age must be between 0 and 120"
    ELSE IF float_raises(data["avg_glucose_level"]) THEN "Invalid numeric values"
    ELSE IF Lt(data["avg_glucose_level"], 0) \/ ~Lt(data["avg_glucose_level"], 500)
        THEN "Glucose level must be between 0 and 500"
    ELSE IF float_raises(data["bmi"]) THEN "Invalid numeric values"
    ELSE IF Lt(data["bmi"], 10) \/ ~Lt(data["bmi"], 60)
        THEN "BMI must be between 10 and 60"
    ELSE ""

\* the range checks of predict, in their order: the error message, or ""
RangeError(data) ==
    IF float_raises(data["age"]) THEN "Invalid numeric values"
    ELSE IF Lt(data["age"], 0) \/ Gt(data["age"], 120)
        THEN "Age must be between 0 and 120"
    ELSE IF float_raises(data["avg_glucose_level"]) THEN "Invalid numeric values"
    ELSE IF Lt(data["avg_glucose_level"], 0) \/ Gt(data["avg_glucose_level"], 500)
        THEN "Glucose level must be between 0 and 500"
    ELSE IF float_raises(data["bmi"]) THEN "Invalid numeric values"
    ELSE IF Lt(data["bmi"], 10) \/ Gt(data["bmi"], 60)
        THEN "BMI must be between 10 and 60"
    ELSE ""

\* patient_data, as predict prepares it for the model
PatientData(data) ==
    [f \in {"age", "gender", "hypertension", "heart_disease", "ever_married",
            "work_type", "Residence_type", "residence_type", "avg_glucose_level",
            "bmi", "smoking_status", "family_history_stroke",
            "alcohol_consumption"} |->
        CASE f \in {"age", "avg_glucose_level", "bmi"} -> data[f]
          [] f \in {"hypertension", "heart_disease"} -> Num(int_bool(data[f]))
          [] f \in {"gender", "ever_married", "work_type", "smoking_status"} ->
                Text(str(data[f]))
          [] f = "Residence_type" ->
                Text(str(Get(data, "residence_type",
                             Get(data, "Residence_type", Text("Urban")))))
          [] f = "family_history_stroke" ->
                Num(int_bool(Get(data, "family_history_stroke", Num(0))))
          [] f = "alcohol_consumption" ->
                Text(str(Get(data, "alcohol_consumption", Text("Never"))))
          \* the dictionary has no key residence_type
          [] OTHER -> Absent]

(***************************************************************************)
(* ml_service.py: StrokeRiskPredictor, the loaded artifacts                *)
(*                                                                         *)
(* patient_data is a mapping from keys to values; a key that is not in it  *)
(* holds Absent.  A label encoder is the sorted tuple classes_ it was      *)
(* fitted with; the code of a class is its index, counted from 0.  An      *)
(* exception is the value Raised.                                          *)
(***************************************************************************)
Raised == [k |-> "raise", n |-> 0, s |-> ""]

feature_names ==
    <<"gender", "age", "hypertension", "heart_disease", "ever_married",
      "work_type", "Residence_type", "avg_glucose_level", "bmi",
      "smoking_status", "family_history_stroke">>

categorical_features ==
    <<"gender", "ever_married", "work_type", "Residence_type", "smoking_status">>

PatientKeys ==
    {feature_names[i] : i \in DOMAIN feature_names}
        \cup {"residence_type", "alcohol_consumption"}

\* LabelEncoder.fit sorts the categories it is given
label_encoders ==
    [gender |-> <<"Female", "Male", "Other">>,
     ever_married |-> <<"No", "Yes">>,
     work_type |-> <<"Govt_job", "Never_worked", "Private", "Self-employed",
                     "children">>,
     Residence_type |-> <<"Rural", "Urban">>,
     smoking_status |-> <<"Unknown", "formerly smoked", "never smoked", "smokes">>]

\* the encoders of an artifact that has them for the fields of S only
EncodersFor(S) == [f \in S |-> label_encoders[f]]

\* StandardScaler.fit(dummy_data): the mean of ten equal rows is the row,
\* and a column without variance is scaled by 1
fallback_scaler ==
    [is_none |-> FALSE,
     mean_ |-> <<1, 45, 0, 0, 1, 0, 1, 100, 25, 0, 0>>,
     scale_ |-> <<1, 1, 1, 1, 1, 1, 1, 1, 1, 1, 1>>]

\* self.scaler = None
NoScaler == [is_none |-> TRUE, mean_ |-> <<>>, scale_ |-> <<>>]

\* s.lower(), for the strings used here
lower(s) ==
    CASE s = "Male" -> "male"
      [] s = "MALE" -> "male"
      [] s = "Female" -> "female"
      [] s = "Other" -> "other"
      [] s = "Yes" -> "yes"
      [] s = "No" -> "no"
      [] s = "Urban" -> "urban"
      [] s = "Rural" -> "rural"
      [] s = "Unknown" -> "unknown"
      [] s = "Smokes" -> "smokes"
      [] s = "Formerly smoked" -> "formerly smoked"
      [] s = "Heavy" -> "heavy"
      [] s = "Never" -> "never"
      [] s = "None" -> "none"
      [] OTHER -> s

\* str_value in encoder.classes_
InClasses(classes, s) == \E i \in DOMAIN classes : classes[i] = s

\* encoder.transform([str_value])[0]
transform(classes, s) == (CHOOSE i \in DOMAIN classes : classes[i] = s) - 1

\* a slip: an unseen category raises instead of taking the code 0
encode_feature_strict(encoders, feature, v) ==
    IF v.k = "absent" THEN v
    ELSE IF feature \in DOMAIN encoders THEN
        IF InClasses(encoders[feature], str(v))
        THEN Num(transform(encoders[feature], str(v)))
        ELSE Raised
    ELSE IF feature \in {"gender", "ever_married", "Residence_type"} THEN
        IF v.k # "text" THEN Raised
        ELSE IF feature = "gender"
            THEN Num(IF lower(v.s) = "male" THEN 1 ELSE 0)
        ELSE IF feature = "ever_married"
            THEN Num(IF lower(v.s) = "yes" THEN 1 ELSE 0)
        ELSE Num(IF lower(v.s) = "urban" THEN 1 ELSE 0)
    ELSE Num(0)

\* one turn of the loop over categorical_features: the new data[feature]
encode_feature(encoders, feature, v) ==
    IF v.k = "absent" THEN v
    ELSE IF feature \in DOMAIN encoders THEN
        IF InClasses(encoders[feature], str(v))
        THEN Num(transform(encoders[feature], str(v)))
        ELSE Num(0)                    \* unseen category, a warning
    \* no encoder: data[feature].lower() raises on what is no string
    ELSE IF feature \in {"gender", "ever_married", "Residence_type"} THEN
        IF v.k # "text" THEN Raised
        ELSE IF feature = "gender"
            THEN Num(IF lower(v.s) = "male" THEN 1 ELSE 0)
        ELSE IF feature = "ever_married"
            THEN Num(IF lower(v.s) = "yes" THEN 1 ELSE 0)
        ELSE Num(IF lower(v.s) = "urban" THEN 1 ELSE 0)
    ELSE Num(0)

IsCategorical(f) == \E i \in DOMAIN categorical_features : categorical_features[i] = f

\* data after the loop over categorical_features
encoded(encoders, data) ==
    [f \in PatientKeys |->
        IF IsCategorical(f) THEN encode_feature(encoders, f, data[f]) ELSE data[f]]

\* data after "Handle residence_type vs Residence_type inconsistency"
with_residence(data) ==
    IF data["residence_type"].k # "absent" /\ data["Residence_type"].k = "absent"
        THEN [data EXCEPT !["Residence_type"] = data["residence_type"]]
    ELSE IF data["Residence_type"].k = "absent" /\ data["residence_type"].k = "absent"
        THEN [data EXCEPT !["Residence_type"] = Num(0)]
    ELSE data

\* float(data[feature]), or 0.0 for a feature that is not in data
to_float(v) ==
    IF v.k = "absent" THEN Num(0)
    ELSE IF v.k \in {"num", "nan"} THEN v
    ELSE Raised                         \* a string that is no number, None

\* a slip: a feature that is not in data left out of the vector
RECURSIVE vector_skipping(_, _, _)
vector_skipping(names, data, i) ==
    IF i > Len(names) THEN <<>>
    ELSE (IF data[names[i]].k = "absent" THEN <<>> ELSE <<to_float(data[names[i]])>>)
            \o vector_skipping(names, data, i + 1)

\* feature_vector: one entry per name of feature_names, in their order
RECURSIVE feature_vector(_, _, _)
feature_vector(names, data, i) ==
    IF i > Len(names) THEN <<>>
    ELSE <<to_float(data[names[i]])>> \o feature_vector(names, data, i + 1)

HasRaised(vector) == \E i \in DOMAIN vector : vector[i].k = "raise"

\* scaler.transform(feature_array): (x - mean_) / scale_; raises when the
\* number of columns is not the one the scaler was fitted with
scaler_raises(scaler, vector) == Len(scaler.mean_) # Len(vector)

scaler_transform(scaler, vector) ==
    [i \in DOMAIN vector |->
        IF vector[i].k = "nan" THEN vector[i]
        ELSE Num((vector[i].n - scaler.mean_[i]) \div scaler.scale_[i])]

\* np.zeros((1, len(self.feature_names)))
zeros(names) == [i \in DOMAIN names |-> Num(0)]

\* a slip: the exception let through
preprocess_features_raising(predictor, patient_data) ==
    LET data == with_residence(encoded(predictor.label_encoders, patient_data))
        vector == feature_vector(predictor.feature_names, data, 1)
    IN  IF \E f \in PatientKeys : data[f].k = "raise" THEN <<Raised>>
        ELSE IF HasRaised(vector) THEN <<Raised>>
        ELSE IF predictor.scaler.is_none THEN vector
        ELSE IF scaler_raises(predictor.scaler, vector) THEN <<Raised>>
        ELSE scaler_transform(predictor.scaler, vector)

\* preprocess_features: the scaled vector, or zeros after any exception
preprocess_features(predictor, patient_data) ==
    LET data == with_residence(encoded(predictor.label_encoders, patient_data))
        vector == feature_vector(predictor.feature_names, data, 1)
    IN  IF \E f \in PatientKeys : data[f].k = "raise" THEN zeros(predictor.feature_names)
        ELSE IF HasRaised(vector) THEN zeros(predictor.feature_names)
        ELSE IF predictor.scaler.is_none THEN vector
        ELSE IF scaler_raises(predictor.scaler, vector) THEN zeros(predictor.feature_names)
        ELSE scaler_transform(predictor.scaler, vector)

(***************************************************************************)
(* ml_service.py: risk factors and recommendations.  A risk factor is its  *)
(* text, with the number that is formatted into it.                        *)
(***************************************************************************)
Factor(text, value) == [text |-> text, value |-> value]

\* needle in s.lower(), for the strings used here
HasWord(s, needle) ==
    CASE needle = "smokes" -> s \in {"smokes", "Smokes"}
      [] needle = "formerly" -> s \in {"formerly smoked", "Formerly smoked"}
      [] needle = "heavy" -> s \in {"Heavy", "heavy"}
      [] needle = "smoking" ->
            s \in {"Current smoking", "Former smoking history", "Passive SMOKING"}
      [] needle = "obesity" -> s \in {"Obesity (BMI: {:.1f})"}
      [] needle = "overweight" -> s \in {"Overweight (BMI: {:.1f})"}
      [] needle = "hypertension" -> s \in {"Hypertension", "Pre-hypertension"}
      [] needle = "glucose" ->
            s \in {"High glucose level ({:.1f} mg/dL)",
                   "Elevated glucose level ({:.1f} mg/dL)"}
      [] OTHER -> FALSE

\* the truth value of patient_data.get(key, 0)
Truthy(v) == int_bool(v) = 1

\* the rules of _identify_risk_factors, in their order
age_factors(age) ==
    IF Gt(age, 65) THEN <<Factor("Advanced age ({} years)", age.n)>>
    ELSE IF Gt(age, 50) THEN <<Factor("Older age ({} years)", age.n)>>
    ELSE <<>>

glucose_factors(glucose) ==
    IF Gt(glucose, 140) THEN <<Factor("High glucose level ({:.1f} mg/dL)", glucose.n)>>
    ELSE IF Gt(glucose, 100)
        THEN <<Factor("Elevated glucose level ({:.1f} mg/dL)", glucose.n)>>
    ELSE <<>>

bmi_factors(bmi) ==
    IF Gt(bmi, 30) THEN <<Factor("Obesity (BMI: {:.1f})", bmi.n)>>
    ELSE IF Gt(bmi, 25) THEN <<Factor("Overweight (BMI: {:.1f})", bmi.n)>>
    ELSE <<>>

smoking_factors(smoking_status) ==
    IF HasWord(str(smoking_status), "smokes") THEN <<Factor("Current smoking", 0)>>
    ELSE IF HasWord(str(smoking_status), "formerly")
        THEN <<Factor("Former smoking history", 0)>>
    ELSE <<>>

\* the rules of _identify_risk_factors that apply, in their order
found_risk_factors(patient_data) ==
    age_factors(Get(patient_data, "age", Num(0)))
    \o (IF Truthy(patient_data["hypertension"])
        THEN <<Factor("Hypertension", 0)>> ELSE <<>>)
    \o (IF Truthy(patient_data["heart_disease"])
        THEN <<Factor("Heart disease", 0)>> ELSE <<>>)
    \o glucose_factors(Get(patient_data, "avg_glucose_level", Num(0)))
    \o bmi_factors(Get(patient_data, "bmi", Num(0)))
    \o smoking_factors(Get(patient_data, "smoking_status", Text("")))
    \o (IF Truthy(patient_data["family_history_stroke"])
        THEN <<Factor("Family history of stroke", 0)>> ELSE <<>>)
    \o (IF HasWord(str(Get(patient_data, "alcohol_consumption", Text(""))), "heavy")
        THEN <<Factor("Heavy alcohol consumption", 0)>> ELSE <<>>)

\* float(patient_data.get(key, 0)) raises for age, glucose or BMI
factors_raise(patient_data) ==
    \/ float_raises(Get(patient_data, "age", Num(0)))
    \/ float_raises(Get(patient_data, "avg_glucose_level", Num(0)))
    \/ float_raises(Get(patient_data, "bmi", Num(0)))

\* a slip: the placeholder forgotten
identify_risk_factors_without_placeholder(patient_data) ==
    IF factors_raise(patient_data)
    THEN <<Factor("Unable to analyze risk factors", 0)>>
    ELSE found_risk_factors(patient_data)

_identify_risk_factors(patient_data) ==
    IF factors_raise(patient_data)          \* except Exception
    THEN <<Factor("Unable to analyze risk factors", 0)>>
    ELSE IF found_risk_factors(patient_data) = <<>>
    THEN <<Factor("No major risk factors identified", 0)>>
    ELSE found_risk_factors(patient_data)

\* the text of the disclaimer, without the warning sign in front of it
disclaimer == "Always consult healthcare professionals before making medical decisions"

LOW_block ==
    <<"Maintain a healthy lifestyle with regular exercise",
      "Follow a balanced diet low in sodium and saturated fats",
      "Schedule regular health check-ups",
      "Monitor blood pressure regularly">>

MODERATE_block ==
    <<"Consult with your healthcare provider about stroke prevention",
      "Consider lifestyle modifications to reduce risk factors",
      "Monitor blood pressure and glucose levels regularly",
      "Implement stress management techniques",
      "Consider medication review with your doctor">>

HIGH_block ==
    <<"Seek immediate medical consultation for stroke prevention strategies",
      "Work closely with healthcare team to manage risk factors",
      "Consider medication for blood pressure and cholesterol management",
      "Implement aggressive lifestyle changes",
      "Regular monitoring by healthcare professionals">>

smoking_advice == "Quit smoking immediately - seek smoking cessation support"
weight_advice == "Work with a nutritionist for healthy weight management"
hypertension_advice == "Follow prescribed blood pressure medications and monitor regularly"
glucose_advice == "Monitor blood sugar levels and follow diabetic management plan"

\* needle in ' '.join(risk_factors).lower(): no needle holds a blank, so it
\* is found in the joined text exactly when it is found in one of the texts
InFactors(risk_factors, needle) ==
    \E i \in DOMAIN risk_factors : HasWord(risk_factors[i].text, needle)

\* a slip: one weight recommendation for each of the two words
generate_recommendations_twice(level, risk_factors) ==
    (IF level = "LOW" THEN LOW_block
     ELSE IF level = "MODERATE" THEN MODERATE_block
     ELSE HIGH_block)
    \o (IF InFactors(risk_factors, "smoking") THEN <<smoking_advice>> ELSE <<>>)
    \o (IF InFactors(risk_factors, "obesity") THEN <<weight_advice>> ELSE <<>>)
    \o (IF InFactors(risk_factors, "overweight") THEN <<weight_advice>> ELSE <<>>)
    \o (IF InFactors(risk_factors, "hypertension") THEN <<hypertension_advice>> ELSE <<>>)
    \o (IF InFactors(risk_factors, "glucose") THEN <<glucose_advice>> ELSE <<>>)
    \o <<disclaimer>>

_generate_recommendations(level, risk_factors) ==
    (IF level = "LOW" THEN LOW_block
     ELSE IF level = "MODERATE" THEN MODERATE_block
     ELSE HIGH_block)
    \o (IF InFactors(risk_factors, "smoking") THEN <<smoking_advice>> ELSE <<>>)
    \o (IF InFactors(risk_factors, "obesity") \/ InFactors(risk_factors, "overweight")
        THEN <<weight_advice>> ELSE <<>>)
    \o (IF InFactors(risk_factors, "hypertension") THEN <<hypertension_advice>> ELSE <<>>)
    \o (IF InFactors(risk_factors, "glucose") THEN <<glucose_advice>> ELSE <<>>)
    \o <<disclaimer>>

(***************************************************************************)
(* ml_service.py: the score classifiers                                    *)
(***************************************************************************)
\* a slip: the thresholds taken as inclusive upper bounds
classify_risk_level_inclusive(p) ==
    IF p <= 30 THEN "LOW"
    ELSE IF p <= 70 THEN "MODERATE"
    ELSE "HIGH"

_classify_risk_level(p) ==
    IF p < 30 THEN "LOW"
    ELSE IF p < 70 THEN "MODERATE"
    ELSE "HIGH"

\* a slip: the MEDIUM band tested before the HIGH band
calculate_confidence_medium_first(p) ==
    IF p < 40 \/ p > 60 THEN "MEDIUM"
    ELSE IF p < 20 \/ p > 80 THEN "HIGH"
    ELSE "LOW"

_calculate_confidence(p) ==
    IF p < 20 \/ p > 80 THEN "HIGH"
    ELSE IF p < 40 \/ p > 60 THEN "MEDIUM"
    ELSE "LOW"

(***************************************************************************)
(* The predictors that get_predictor can build.  A classifier is a         *)
(* constant, or a decision stump on one column of the scaled vector.       *)
(***************************************************************************)
Constant(p) == [feature |-> 0, at |-> 0, below |-> p, above |-> p]
Stump(i, at, below, above) ==
    [feature |-> i, at |-> at, below |-> below, above |-> above]

\* instance tells one StrokeRiskPredictor object from another
Predictor(model, scaler, encoders, names, name, version) ==
    [is_none |-> FALSE, instance |-> 0, model |-> model, scaler |-> scaler,
     label_encoders |-> encoders, feature_names |-> names,
     model_name |-> name, model_version |-> version]

\* _create_fallback_model: a forest fitted on ten equal rows answers with
\* the same probability for every input
fallback_predictor ==
    Predictor(Constant(50), fallback_scaler, label_encoders, feature_names,
              "Fallback Random Forest", "1.0.0-fallback")

\* _load_model: artifacts of a trained model
trained_predictor ==
    Predictor(Stump(2, 15, 20, 75), fallback_scaler, label_encoders, feature_names,
              "Random Forest", "1.0.0")

\* artifacts without a scaler and without encoders for three of the fields
bare_predictor ==
    Predictor(Stump(2, 60, 20, 75), NoScaler,
              EncodersFor({"work_type", "smoking_status"}), feature_names,
              "Logistic Regression", "1.0.0")

\* artifacts whose scaler was fitted with one column less
narrow_scaler ==
    [is_none |-> FALSE, mean_ |-> SubSeq(fallback_scaler.mean_, 1, 10),
     scale_ |-> SubSeq(fallback_scaler.scale_, 1, 10)]

mismatched_predictor ==
    Predictor(Constant(40), narrow_scaler, label_encoders, feature_names,
              "Gradient Boosting", "1.0.0")

Predictors ==
    {fallback_predictor, trained_predictor, bare_predictor, mismatched_predictor}

\* the artifacts that StrokeRiskPredictor() finds when the server builds it
StrokeRiskPredictors == {fallback_predictor, trained_predictor}

(***************************************************************************)
(* ml_service.py: predict_risk                                             *)
(***************************************************************************)
\* model.predict and model.predict_proba raise on a vector that holds NaN
model_raises(model, vector) == \E i \in DOMAIN vector : vector[i].k = "nan"

\* model.predict_proba(processed_features)[0][1], in hundredths
predict_proba(model, vector) ==
    IF model.feature = 0 THEN model.below
    ELSE IF vector[model.feature].n > model.at THEN model.above
    ELSE model.below

\* the except branch of predict_risk: the safe fallback
predict_risk_error(predictor) ==
    [probability_score |-> 10,
     risk_level |-> "LOW",
     confidence |-> "LOW",
     risk_factors |-> <<Factor("Unable to analyze - system error", 0)>>,
     recommendations |-> <<"Please consult a healthcare professional">>,
     model_version |-> predictor.model_version,
     model_name |-> predictor.model_name \o " (Error Mode)",
     error |-> "Input contains NaN"]

\* a slip: a classifier that shifts with every call it has answered
predict_risk_drifting(predictor, patient_data) ==
    LET processed_features_ == preprocess_features(predictor, patient_data)
        shifted == predict_proba(predictor.model, processed_features_)
                        + 10 * Len(calls)
        probability_ == IF shifted > 100 THEN 100 ELSE shifted
        risk_level_ == _classify_risk_level(probability_)
        risk_factors == _identify_risk_factors(patient_data)
    IN  IF model_raises(predictor.model, processed_features_)
        THEN predict_risk_error(predictor)
        ELSE [probability_score |-> probability_,
              risk_level |-> risk_level_,
              confidence |-> _calculate_confidence(probability_),
              risk_factors |-> risk_factors,
              recommendations |-> _generate_recommendations(risk_level_, risk_factors),
              model_version |-> predictor.model_version,
              model_name |-> predictor.model_name]

predict_risk(predictor, patient_data) ==
    LET processed_features_ == preprocess_features(predictor, patient_data)
        probability_ == predict_proba(predictor.model, processed_features_)
        risk_level_ == _classify_risk_level(probability_)
        risk_factors == _identify_risk_factors(patient_data)
    IN  IF model_raises(predictor.model, processed_features_)
        THEN predict_risk_error(predictor)
        ELSE [probability_score |-> probability_,
              risk_level |-> risk_level_,
              confidence |-> _calculate_confidence(probability_),
              risk_factors |-> risk_factors,
              recommendations |-> _generate_recommendations(risk_level_, risk_factors),
              model_version |-> predictor.model_version,
              model_name |-> predictor.model_name]

\* get_model_info
get_model_info(predictor) ==
    [model_name |-> predictor.model_name,
     model_version |-> predictor.model_version,
     feature_count |-> Len(predictor.feature_names),
     features |-> predictor.feature_names,
     is_loaded |-> TRUE]

\* predict's fallback when the ML service could not be imported
demo_prediction ==
    [risk_level |-> "MODERATE",
     probability_score |-> 35,
     confidence |-> "MEDIUM",
     risk_factors |-> <<Factor("Demo mode - ML service not available", 0)>>,
     recommendations |-> <<"Consult healthcare provider", "Regular health monitoring">>,
     model_name |-> "Demo Model",
     model_version |-> "1.0.0"]

(***************************************************************************)
(* models.py, class Prediction                                             *)
(***************************************************************************)
\* json.dumps of a list: the text that holds its items in their order
json_dumps(list) == [json |-> list]

\* Prediction.__init__ and the created_at default
Prediction(user_id, prediction_data, patient_data) ==
    [user_id |-> user_id,
     risk_level |-> prediction_data.risk_level,
     probability_score |-> prediction_data.probability_score,
     confidence |-> prediction_data.confidence,
     age |-> patient_data["age"],
     gender |-> patient_data["gender"].s,
     hypertension |-> Truthy(patient_data["hypertension"]),
     heart_disease |-> Truthy(patient_data["heart_disease"]),
     ever_married |-> patient_data["ever_married"].s,
     work_type |-> patient_data["work_type"].s,
     residence_type |-> patient_data["Residence_type"].s,
     avg_glucose_level |-> patient_data["avg_glucose_level"],
     bmi |-> patient_data["bmi"],
     smoking_status |-> patient_data["smoking_status"].s,
     family_history_stroke |-> Truthy(patient_data["family_history_stroke"]),
     alcohol_consumption |-> patient_data["alcohol_consumption"].s,
     model_name |-> prediction_data.model_name,
     model_version |-> prediction_data.model_version,
     risk_factors |-> json_dumps(prediction_data.risk_factors),
     recommendations |-> json_dumps(prediction_data.recommendations),
     created_at |-> now]

\* a slip: the query without its filter
predictions_of_anyone(user_id) == DOMAIN predictions

\* Prediction.query.filter_by(user_id=user_id): the ids of the user's rows
predictions_of(user_id) ==
    {p \in DOMAIN predictions : predictions[p].user_id = user_id}

(***************************************************************************)
(* Prediction.get_user_statistics                                          *)
(***************************************************************************)
RECURSIVE SumOver(_, _)
SumOver(S, f) ==
    IF S = {} THEN 0
    ELSE LET x == CHOOSE y \in S : TRUE IN f[x] + SumOver(S \ {x}, f)

\* round(num / den, digits) on the decimal scale 10^digits, half to even
Round(num, den, scale) ==
    LET q == (num * scale) \div den
        r == (num * scale) % den
    IN IF 2 * r > den \/ (2 * r = den /\ q % 2 = 1) THEN q + 1 ELSE q

\* raised inside get_user_statistics
statistics_raises(user_id) ==
    predictions_of(user_id) # {} /\ week_ago_raises(now)

\* average_age is in tenths of a year, average_probability in thousandths
get_user_statistics(user_id) ==
    LET mine == predictions_of(user_id)
        ages == {p \in mine : predictions[p].age.n # 0}
        count(level) == Cardinality({p \in mine : predictions[p].risk_level = level})
    IN IF mine = {} THEN
            [total_predictions |-> 0,
             risk_distribution |-> [LOW |-> 0, MODERATE |-> 0, HIGH |-> 0],
             average_age |-> 0,
             recent_predictions |-> 0,
             average_probability |-> 0]
       ELSE [total_predictions |-> Cardinality(mine),
             risk_distribution |->
                [LOW |-> count("LOW"), MODERATE |-> count("MODERATE"),
                 HIGH |-> count("HIGH")],
             average_age |->
                IF ages = {} THEN 0
                ELSE Round(SumOver(ages, [p \in ages |-> predictions[p].age.n]),
                           Cardinality(ages), 10),
             recent_predictions |->
                Cardinality({p \in mine : predictions[p].created_at >= week_ago(now)}),
             average_probability |->
                Round(SumOver(mine, [p \in mine |-> predictions[p].probability_score]),
                      Cardinality(mine), 10)]

\* a slip: order_by(created_at) without desc()
get_user_predictions_oldest_first(user_id) ==
    LET mine == predictions_of(user_id)
        n == Cardinality(mine)
    IN {s \in [1..n -> mine] :
            /\ \A i, j \in 1..n : i # j => s[i] # s[j]
            /\ \A i, j \in 1..n :
                i < j => predictions[s[i]].created_at <= predictions[s[j]].created_at}

\* Prediction.get_user_predictions: the user's rows ordered by created_at
\* descending; rows of equal created_at come in any order
get_user_predictions(user_id) ==
    LET mine == predictions_of(user_id)
        n == Cardinality(mine)
    IN {s \in [1..n -> mine] :
            /\ \A i, j \in 1..n : i # j => s[i] # s[j]
            /\ \A i, j \in 1..n :
                i < j => predictions[s[i]].created_at >= predictions[s[j]].created_at}

(***************************************************************************)
(* GET /api/auth/validate                                                  *)
(***************************************************************************)
ValidateToken ==
    /\ Serving("validate")
    /\ LET h == response.request.auth IN
       response' =
         IF ~h.present \/ ~h.bearer
            THEN Reply(401, [valid |-> FALSE, error |-> "No token provided"])
         ELSE IF h.prefix /\ ~h.isInt      \* int() raises
            THEN Except(401, [valid |-> FALSE, error |-> "Token validation failed"], FALSE)
         ELSE IF h.prefix /\ query_get(h.id) # 0 /\ users[h.id].is_active
            THEN Reply(200, [valid |-> TRUE, user |-> h.id])
         ELSE Reply(401, [valid |-> FALSE, error |-> "Invalid token"])
    /\ UNCHANGED <<db, now, risk>>

(***************************************************************************)
(* POST /api/predict                                                       *)
(***************************************************************************)
\* the response of a request that passed validation; int(age) raises on NaN
PredictReply(data, prediction_result) ==
    IF data["age"].k = "nan"
    THEN Except(500, [error |-> "Internal server error"], FALSE)
    ELSE Reply(200, [prediction |-> prediction_result,
                     patient_summary |-> [age |-> data["age"],
                                          bmi |-> data["bmi"],
                                          glucose_level |-> data["avg_glucose_level"]]])

\* a slip: the new row written over the row stored last
add_prediction_over_last(row) ==
    /\ predictions' =
            IF DOMAIN predictions = {} THEN (nextPredId :> row)
            ELSE [predictions EXCEPT
                    ![CHOOSE p \in DOMAIN predictions :
                        \A q \in DOMAIN predictions : q <= p] = row]
    /\ nextPredId' = nextPredId + 1

\* a slip: the row added to the session a second time
add_prediction_twice(row) ==
    /\ predictions' = [p \in DOMAIN predictions \cup {nextPredId, nextPredId + 1} |->
                            IF p >= nextPredId THEN row ELSE predictions[p]]
    /\ nextPredId' = nextPredId + 2

\* db.session.add(prediction); db.session.commit()
add_prediction(row) ==
    /\ predictions' = [p \in DOMAIN predictions \cup {nextPredId} |->
                            IF p = nextPredId THEN row ELSE predictions[p]]
    /\ nextPredId' = nextPredId + 1

\* a slip: the failed row left in the session and written by the next flush
store_fails_keeping_row(row) ==
    /\ nextPredId <= MaxPreds
    /\ add_prediction(row)
    /\ UNCHANGED <<users, nextUserId>>

\* db.session.commit() raises: db.session.rollback(), nothing is stored
store_fails(row) == UNCHANGED db

Predict ==
    /\ Serving("predict")
    /\ LET req == response.request
           data == req.data
           current_user == get_current_user(req.auth)
       IN
       IF ~req.is_json THEN
            /\ response' = Reply(400, [error |-> "Request must be JSON"])
            /\ UNCHANGED <<db, _predictor>>
       ELSE IF IsEmptyBody(data) THEN
            /\ response' = Reply(400, [error |-> "Request body is required"])
            /\ UNCHANGED <<db, _predictor>>
       ELSE IF missing_fields(data) # <<>> THEN
            /\ response' = Reply(400, [error |-> "Missing required fields",
                                       missing_fields |-> missing_fields(data)])
            /\ UNCHANGED <<db, _predictor>>
       ELSE IF RangeError(data) # "" THEN
            /\ response' = Reply(400, [error |-> RangeError(data)])
            /\ UNCHANGED <<db, _predictor>>
       \* predict_stroke_risk: get_predictor builds the predictor at its
       \* first call
       ELSE \E built \in StrokeRiskPredictors :
            LET predictor == IF _predictor.is_none THEN built ELSE _predictor
                prediction_result ==
                    IF ML_SERVICE_AVAILABLE
                    THEN predict_risk(predictor, PatientData(data))
                    ELSE demo_prediction
            IN
            /\ _predictor' = IF ML_SERVICE_AVAILABLE THEN predictor ELSE _predictor
            /\ \/ /\ current_user = 0
                  /\ response' = PredictReply(data, prediction_result)
                  /\ UNCHANGED db
               \* the row is stored; an Integer column takes no NaN
               \/ /\ current_user # 0
                  /\ data["age"].k # "nan"
                  /\ nextPredId <= MaxPreds
                  /\ response' = PredictReply(data, prediction_result)
                  /\ add_prediction(Prediction(current_user, prediction_result,
                                               PatientData(data)))
                  /\ UNCHANGED <<users, nextUserId>>
               \* the commit raises: rollback, and the request goes on
               \/ /\ current_user # 0
                  /\ response' = [PredictReply(data, prediction_result)
                                        EXCEPT !.rollback = TRUE]
                  /\ store_fails(Prediction(current_user, prediction_result,
                                            PatientData(data)))
    /\ UNCHANGED <<now, ML_SERVICE_AVAILABLE, probability, risk_level, confidence,
                   patient, processed_features, identified, recommended, service>>

(***************************************************************************)
(* GET /api/history                                                        *)
(***************************************************************************)
\* Prediction.to_dict of the row with id p: the lists are read back from
\* their JSON text
to_dict(p) ==
    [id |-> p,
     user_id |-> predictions[p].user_id,
     risk_level |-> predictions[p].risk_level,
     probability_score |-> predictions[p].probability_score,
     confidence |-> predictions[p].confidence,
     risk_factors |-> predictions[p].risk_factors.json,
     recommendations |-> predictions[p].recommendations.json,
     created_at |-> predictions[p].created_at]

GetHistory ==
    /\ Serving("history")
    /\ LET current_user == get_current_user(response.request.auth) IN
       IF current_user = 0
       THEN response' = Reply(401, [error |-> "Authentication required"])
       ELSE \E preds \in get_user_predictions(current_user) :
                response' = Reply(200, [predictions |->
                                            [i \in 1..Len(preds) |-> to_dict(preds[i])],
                                        total_count |-> Len(preds)])
    /\ UNCHANGED <<db, now, risk>>

(***************************************************************************)
(* GET /api/statistics                                                     *)
(***************************************************************************)
GetStatistics ==
    /\ Serving("statistics")
    /\ LET current_user == get_current_user(response.request.auth) IN
       response' =
         IF current_user = 0
            THEN Reply(401, [error |-> "Authentication required"])
         ELSE IF statistics_raises(current_user)
            THEN Except(500, [error |-> "Failed to retrieve statistics"], FALSE)
         ELSE Reply(200, [statistics |-> get_user_statistics(current_user)])
    /\ UNCHANGED <<db, now, risk>>

(***************************************************************************)
(* DELETE /api/predictions/<int:prediction_id>                             *)
(***************************************************************************)
\* a slip: the row looked up by its id alone
find_prediction_any_owner(prediction_id, user_id) ==
    IF prediction_id \in DOMAIN predictions THEN prediction_id ELSE 0

\* Prediction.query.filter_by(id=prediction_id, user_id=user_id).first():
\* the row's id, or 0 for None
find_prediction(prediction_id, user_id) ==
    IF prediction_id \in predictions_of(user_id) THEN prediction_id ELSE 0

DeletePrediction ==
    /\ Serving("delete")
    /\ LET current_user == get_current_user(response.request.auth)
           prediction_id == response.request.prediction_id
       IN
       IF current_user = 0 THEN
            /\ response' = Reply(401, [error |-> "Authentication required"])
            /\ UNCHANGED predictions
       ELSE IF find_prediction(prediction_id, current_user) = 0 THEN
            /\ response' = Reply(404, [error |-> "Prediction not found"])
            /\ UNCHANGED predictions
       ELSE /\ predictions' = [p \in DOMAIN predictions \ {prediction_id} |->
                                    predictions[p]]
            /\ response' = Reply(200, [deleted |-> prediction_id])
    /\ UNCHANGED <<users, nextUserId, nextPredId, now, risk>>

(***************************************************************************)
(* The predictor before any call                                           *)
(***************************************************************************)
\* _predictor = None
NoPredictor == [is_none |-> TRUE]

NoFeatures == [called |-> FALSE]
NoFactors == [called |-> FALSE, risk_factors |-> <<>>]
NoRecommendations == [called |-> FALSE, recommendations |-> <<>>]

\* a thread that is not inside ml_service
IdleThread == [pc |-> "idle", call |-> "", patient_data |-> <<>>,
               predictor |-> NoPredictor]

Threads == 1..MaxThreads

NoService ==
    /\ threads = [t \in Threads |-> IdleThread]
    /\ constructed = 0
    /\ calls = <<>>

NoCalls ==
    /\ _predictor = NoPredictor
    /\ patient = <<>>
    /\ processed_features = NoFeatures
    /\ identified = NoFactors
    /\ recommended = NoRecommendations
    /\ NoService

(***************************************************************************)
(* The requests the server is sent                                         *)
(***************************************************************************)
Mail(n) == Email(n, FALSE, "none", TRUE)

SignupRequests ==
    {[is_json |-> TRUE, name |-> "n", email |-> e, password |-> "pw1"] :
        e \in {Mail("a"), Email("a", TRUE, "none", TRUE),
               Email("a", FALSE, "newline", TRUE), Email("a", TRUE, "blank", TRUE),
               Email("a", FALSE, "none", FALSE), NoEmail}}
    \cup {[is_json |-> TRUE, name |-> "n", email |-> Mail("b"), password |-> "pw2"],
          [is_json |-> TRUE, name |-> "", email |-> Mail("b"), password |-> "pw2"],
          [is_json |-> TRUE, name |-> "n", email |-> Mail("b"), password |-> ""],
          [is_json |-> FALSE, name |-> "n", email |-> Mail("b"), password |-> "pw2"]}

LoginRequests ==
    {[is_json |-> TRUE, email |-> e, password |-> pw] :
        e \in {Mail("a"), Email("a", TRUE, "none", TRUE),
               Email("a", FALSE, "newline", TRUE), Mail("b"), NoEmail},
        pw \in {"pw1", "pw2", ""}}
    \cup {[is_json |-> FALSE, email |-> Mail("a"), password |-> "pw1"]}

\* a body with every required field, the numbers as given
Body(age, glucose, bmi) ==
    [f \in Fields |->
        CASE f = "age" -> age
          [] f = "avg_glucose_level" -> glucose
          [] f = "bmi" -> bmi
          [] f = "gender" -> Text("Male")
          [] f = "hypertension" -> Num(1)
          [] f = "heart_disease" -> Num(0)
          [] f = "ever_married" -> Text("Yes")
          [] f = "work_type" -> Text("Private")
          [] f = "smoking_status" -> Text("smokes")
          [] OTHER -> Absent]

EmptyBody == [f \in Fields |-> Absent]

PredictBodies ==
    {Body(Num(50), Num(100), Num(25)),
     Body(Num(121), Num(100), Num(25)),
     [Body(Num(50), Num(100), Num(25)) EXCEPT !["bmi"] = Null],
     EmptyBody}

PredictRequests ==
    {[is_json |-> TRUE, auth |-> h, data |-> d] : h \in AuthHeaders, d \in PredictBodies}
    \cup {[is_json |-> FALSE, auth |-> NoHeader, data |-> EmptyBody]}

Receive ==
    /\ response.phase = "idle"
    /\ \/ \E r \in SignupRequests : response' = Received("signup", r)
       \/ \E r \in LoginRequests : response' = Received("login", r)
       \/ \E h \in AuthHeaders : response' = Received("validate", [auth |-> h])
       \/ \E r \in PredictRequests : response' = Received("predict", r)
       \/ \E h \in AuthHeaders : response' = Received("history", [auth |-> h])
       \/ \E h \in AuthHeaders : response' = Received("statistics", [auth |-> h])
       \/ \E h \in AuthHeaders, id \in 1..(MaxPreds + 1) :
            response' = Received("delete", [auth |-> h, prediction_id |-> id])
    /\ UNCHANGED <<db, now, risk>>

(***************************************************************************)
(* The API: the database is empty when the server starts                   *)
(***************************************************************************)
Init ==
    /\ users = <<>>
    /\ predictions = <<>>
    /\ nextUserId = 1
    /\ nextPredId = 1
    /\ now = FirstDay
    /\ response = Idle
    /\ ML_SERVICE_AVAILABLE = TRUE
    /\ probability = 0
    /\ risk_level = ""
    /\ confidence = ""
    /\ NoCalls

Next ==
    \/ Receive
    \/ Signup
    \/ Login
    \/ ValidateToken
    \/ Predict
    \/ GetHistory
    \/ GetStatistics
    \/ DeletePrediction
    \/ Respond
    \/ Tick
    \/ SetActive
    \/ DeleteUser

Spec == Init /\ [][Next]_vars

(***************************************************************************)
(* POST /api/predict alone: one request, of any shape, sent to a server    *)
(* with one registered user                                                *)
(***************************************************************************)
RequiredSet == {required_fields[i] : i \in DOMAIN required_fields}
FieldIndex(f) == CHOOSE i \in DOMAIN required_fields : required_fields[i] = f

\* below, on and above the bounds lo and hi, and what is no number
NumChoices(lo, mid, hi) ==
    {Num(lo - 1), Num(lo), Num(mid), Num(hi), Num(hi + 1), Text("abc"), NaN}

\* every required field present
FullBodies ==
    {Body(a, g, b) : a \in NumChoices(0, 50, 120), g \in NumChoices(0, 100, 500),
                     b \in NumChoices(10, 25, 60)}

\* the required fields of M left out, or null, or the one and the other in turn
PartialBodies ==
    {[f \in Fields |->
        IF f \in M
            THEN (CASE mode = "absent" -> Absent
                    [] mode = "null" -> Null
                    [] OTHER -> IF FieldIndex(f) % 2 = 1 THEN Absent ELSE Null)
        ELSE IF f = "alcohol_consumption" THEN extra
        ELSE Body(age, Num(100), Num(25))[f]] :
     M \in SUBSET RequiredSet \ {{}}, mode \in {"absent", "null", "mixed"},
     age \in {Num(50), Num(121)}, extra \in {Absent, Text("Never")}}

WidePredictRequests ==
    {[is_json |-> TRUE, auth |-> h, data |-> d] :
        h \in {NoHeader, access_token(1), access_token(2)},
        d \in FullBodies \cup PartialBodies}
    \cup {[is_json |-> FALSE, auth |-> access_token(1), data |-> EmptyBody]}

InitPredict ==
    /\ \E active \in BOOLEAN :
        users = (1 :> [User("n", Mail("a"), "pw1") EXCEPT !.is_active = active])
    /\ predictions = <<>>
    /\ nextUserId = 2
    /\ nextPredId = 1
    /\ now = FirstDay
    /\ \E r \in WidePredictRequests : response = Received("predict", r)
    /\ ML_SERVICE_AVAILABLE \in BOOLEAN
    /\ probability = 0
    /\ risk_level = ""
    /\ confidence = ""
    /\ NoCalls

NextPredict == Predict \/ Respond

SpecPredict == InitPredict /\ [][NextPredict]_vars

(***************************************************************************)
(* The score classifiers alone, on every probability from 0 to 1           *)
(***************************************************************************)
ClassifyRiskLevel ==
    /\ risk_level = ""
    /\ risk_level' = _classify_risk_level(probability)
    /\ UNCHANGED <<db, now, response, ML_SERVICE_AVAILABLE, probability, confidence, ml>>

CalculateConfidence ==
    /\ confidence = ""
    /\ confidence' = _calculate_confidence(probability)
    /\ UNCHANGED <<db, now, response, ML_SERVICE_AVAILABLE, probability, risk_level, ml>>

InitRisk ==
    /\ users = <<>>
    /\ predictions = <<>>
    /\ nextUserId = 1
    /\ nextPredId = 1
    /\ now = FirstDay
    /\ response = Idle
    /\ ML_SERVICE_AVAILABLE = TRUE
    /\ probability \in 0..100
    /\ risk_level = ""
    /\ confidence = ""
    /\ NoCalls

NextRisk == ClassifyRiskLevel \/ CalculateConfidence

SpecRisk == InitRisk /\ [][NextRisk]_vars

(***************************************************************************)
(* preprocess_features alone, on sampled patient data                      *)
(***************************************************************************)
\* the patient of test_prediction, under the key Residence_type
BasePatient ==
    [f \in PatientKeys |->
        CASE f = "age" -> Num(55)
          [] f = "gender" -> Text("Male")
          [] f = "hypertension" -> Num(1)
          [] f = "heart_disease" -> Num(0)
          [] f = "ever_married" -> Text("Yes")
          [] f = "work_type" -> Text("Private")
          [] f = "Residence_type" -> Text("Urban")
          [] f = "residence_type" -> Absent
          [] f = "avg_glucose_level" -> Num(120)
          [] f = "bmi" -> Num(28)
          [] f = "smoking_status" -> Text("formerly smoked")
          [] f = "family_history_stroke" -> Num(1)
          [] f = "alcohol_consumption" -> Text("Occasionally")]

FeatureInputs ==
    {[BasePatient EXCEPT !["gender"] = g, !["work_type"] = w,
                         !["Residence_type"] = R, !["residence_type"] = r,
                         !["age"] = a, !["smoking_status"] = s] :
        g \in {Text("Male"), Text("Other"), Text("MALE"), Num(1), Absent},
        w \in {Text("children"), Text("Pilot"), Absent},
        R \in {Text("Urban"), Text("Rural"), Text("Mars"), Absent},
        r \in {Absent, Text("Urban"), Num(1)},
        a \in {Num(55), Text("old"), NaN, Absent},
        s \in {Text("smokes"), Null}}

PreprocessFeatures ==
    /\ ~processed_features.called
    /\ processed_features' =
        [called |-> TRUE,
         \* data after the loop over categorical_features
         encoded |-> encoded(_predictor.label_encoders, patient),
         \* feature_vector, as it is passed to the scaler
         feature_vector |->
            feature_vector(_predictor.feature_names,
                           with_residence(encoded(_predictor.label_encoders, patient)), 1),
         \* what the function returns
         scaled_features |-> preprocess_features(_predictor, patient)]
    /\ UNCHANGED <<db, now, response, ML_SERVICE_AVAILABLE, probability, risk_level,
                   confidence, _predictor, patient, identified, recommended, service>>

InitFeatures ==
    /\ users = <<>>
    /\ predictions = <<>>
    /\ nextUserId = 1
    /\ nextPredId = 1
    /\ now = FirstDay
    /\ response = Idle
    /\ ML_SERVICE_AVAILABLE = TRUE
    /\ probability = 0
    /\ risk_level = ""
    /\ confidence = ""
    /\ _predictor \in Predictors
    /\ patient \in FeatureInputs
    /\ processed_features = NoFeatures
    /\ identified = NoFactors
    /\ recommended = NoRecommendations
    /\ NoService

NextFeatures == PreprocessFeatures

SpecFeatures == InitFeatures /\ [][NextFeatures]_vars

(***************************************************************************)
(* _identify_risk_factors alone, on sampled patient data                   *)
(***************************************************************************)
FactorInputs ==
    {[BasePatient EXCEPT !["age"] = a, !["hypertension"] = h,
                         !["heart_disease"] = d, !["avg_glucose_level"] = g,
                         !["bmi"] = b, !["smoking_status"] = s,
                         !["family_history_stroke"] = f,
                         !["alcohol_consumption"] = c] :
        a \in {Num(50), Num(51), Num(65), Num(66), NaN, Absent, Text("old")},
        h \in {Num(0), Num(1), Absent},
        d \in {Num(0), Num(1)},
        g \in {Num(100), Num(101), Num(140), Num(141)},
        b \in {Num(25), Num(26), Num(30), Num(31)},
        s \in {Text("never smoked"), Text("Smokes"), Text("formerly smoked"),
               Text("Unknown"), Absent},
        f \in {Num(0), Num(1)},
        c \in {Text("Never"), Text("Heavy"), Absent}}

IdentifyRiskFactors ==
    /\ ~identified.called
    /\ identified' = [called |-> TRUE,
                      risk_factors |-> _identify_risk_factors(patient)]
    /\ UNCHANGED <<db, now, response, ML_SERVICE_AVAILABLE, probability, risk_level,
                   confidence, _predictor, patient, processed_features, recommended,
                   service>>

InitFactors ==
    /\ users = <<>>
    /\ predictions = <<>>
    /\ nextUserId = 1
    /\ nextPredId = 1
    /\ now = FirstDay
    /\ response = Idle
    /\ ML_SERVICE_AVAILABLE = TRUE
    /\ probability = 0
    /\ risk_level = ""
    /\ confidence = ""
    /\ _predictor = fallback_predictor
    /\ patient \in FactorInputs
    /\ processed_features = NoFeatures
    /\ identified = NoFactors
    /\ recommended = NoRecommendations
    /\ NoService

NextFactors == IdentifyRiskFactors

SpecFactors == InitFactors /\ [][NextFactors]_vars

(***************************************************************************)
(* _generate_recommendations alone, on every risk level and on lists of    *)
(* up to MaxFactors risk factors                                           *)
(***************************************************************************)
MaxFactors == 3

FactorTexts ==
    {"Hypertension", "Pre-hypertension", "Current smoking", "Passive SMOKING",
     "Obesity (BMI: {:.1f})", "Overweight (BMI: {:.1f})",
     "Elevated glucose level ({:.1f} mg/dL)", "Heart disease",
     "No major risk factors identified"}

FactorLists ==
    UNION {[1..n -> {Factor(t, 0) : t \in FactorTexts}] : n \in 0..MaxFactors}

GenerateRecommendations ==
    /\ identified.called
    /\ ~recommended.called
    /\ recommended' =
        [called |-> TRUE,
         recommendations |->
            _generate_recommendations(risk_level, identified.risk_factors)]
    /\ UNCHANGED <<db, now, response, ML_SERVICE_AVAILABLE, probability, risk_level,
                   confidence, _predictor, patient, processed_features, identified,
                   service>>

InitAdvice ==
    /\ users = <<>>
    /\ predictions = <<>>
    /\ nextUserId = 1
    /\ nextPredId = 1
    /\ now = FirstDay
    /\ response = Idle
    /\ ML_SERVICE_AVAILABLE = TRUE
    /\ probability = 0
    /\ risk_level \in {"LOW", "MODERATE", "HIGH", "UNKNOWN"}
    /\ confidence = ""
    /\ _predictor = fallback_predictor
    /\ patient = <<>>
    /\ processed_features = NoFeatures
    /\ identified \in {[called |-> TRUE, risk_factors |-> l] : l \in FactorLists}
    /\ recommended = NoRecommendations
    /\ NoService

NextAdvice == GenerateRecommendations

SpecAdvice == InitAdvice /\ [][NextAdvice]_vars

(***************************************************************************)
(* ml_service.py alone: threads that call predict_stroke_risk and          *)
(* get_predictor_info at the same time.  A thread runs get_predictor line  *)
(* by line, and another thread may run between any two of its lines.       *)
(***************************************************************************)
\* the object that the n-th evaluation of StrokeRiskPredictor() creates
Instance(n, artifacts) == [artifacts EXCEPT !.instance = n]

\* the patient data the callers pass
ServiceInputs ==
    {PatientData(Body(Num(a), Num(100), Num(25))) : a \in {50, 70}}
        \cup {PatientData(Body(NaN, Num(100), Num(25))),
              [BasePatient EXCEPT !["age"] = Text("old")]}

InFlight == {t \in Threads : threads[t].pc # "idle"}

\* predict_stroke_risk(patient_data) or get_predictor_info() is called
Call(t) ==
    /\ threads[t].pc = "idle"
    /\ Len(calls) + Cardinality(InFlight) < MaxCalls
    /\ \/ \E d \in ServiceInputs :
            threads' = [threads EXCEPT ![t] =
                [pc |-> "check", call |-> "predict_stroke_risk",
                 patient_data |-> d, predictor |-> NoPredictor]]
       \/ threads' = [threads EXCEPT ![t] =
                [pc |-> "check", call |-> "get_predictor_info",
                 patient_data |-> <<>>, predictor |-> NoPredictor]]
    /\ UNCHANGED <<db, now, response, ML_SERVICE_AVAILABLE, probability, risk_level,
                   confidence, _predictor, patient, processed_features, identified,
                   recommended, constructed, calls>>

\* get_predictor: if _predictor is None
Check(t) ==
    /\ threads[t].pc = "check"
    /\ threads' = [threads EXCEPT ![t].pc =
                        IF _predictor.is_none THEN "construct" ELSE "return"]
    /\ UNCHANGED <<db, now, response, ML_SERVICE_AVAILABLE, probability, risk_level,
                   confidence, _predictor, patient, processed_features, identified,
                   recommended, constructed, calls>>

\* get_predictor: StrokeRiskPredictor() loads what the model files hold
Construct(t) ==
    /\ threads[t].pc = "construct"
    /\ \E artifacts \in StrokeRiskPredictors :
        threads' = [threads EXCEPT ![t].pc = "assign",
                        ![t].predictor = Instance(constructed + 1, artifacts)]
    /\ constructed' = constructed + 1
    /\ UNCHANGED <<db, now, response, ML_SERVICE_AVAILABLE, probability, risk_level,
                   confidence, _predictor, patient, processed_features, identified,
                   recommended, calls>>

\* get_predictor: _predictor = <the new object>
Assign(t) ==
    /\ threads[t].pc = "assign"
    /\ _predictor' = threads[t].predictor
    /\ threads' = [threads EXCEPT ![t].pc = "return"]
    /\ UNCHANGED <<db, now, response, ML_SERVICE_AVAILABLE, probability, risk_level,
                   confidence, patient, processed_features, identified,
                   recommended, constructed, calls>>

\* get_predictor: return _predictor; then the caller's method call on it.
\* Neither predict_risk nor get_model_info assigns to an attribute of self:
\* self_after is the object as the method leaves it
Return(t) ==
    /\ threads[t].pc = "return"
    /\ LET predictor == _predictor
           self_after == predictor
       IN calls' = Append(calls,
                [thread |-> t,
                 call |-> threads[t].call,
                 predictor |-> predictor,
                 self_after |-> self_after,
                 patient_data |-> threads[t].patient_data,
                 result |->
                    IF threads[t].call = "predict_stroke_risk"
                    THEN predict_risk(predictor, threads[t].patient_data)
                    ELSE get_model_info(predictor)])
    /\ threads' = [threads EXCEPT ![t] = IdleThread]
    /\ UNCHANGED <<db, now, response, ML_SERVICE_AVAILABLE, probability, risk_level,
                   confidence, _predictor, patient, processed_features, identified,
                   recommended, constructed>>

InitService ==
    /\ users = <<>>
    /\ predictions = <<>>
    /\ nextUserId = 1
    /\ nextPredId = 1
    /\ now = FirstDay
    /\ response = Idle
    /\ ML_SERVICE_AVAILABLE = TRUE
    /\ probability = 0
    /\ risk_level = ""
    /\ confidence = ""
    /\ NoCalls

NextService ==
    \E t \in Threads : Call(t) \/ Check(t) \/ Construct(t) \/ Assign(t) \/ Return(t)

SpecService == InitService /\ [][NextService]_vars

(***************************************************************************)
(* GET /api/statistics alone: one request, on any day of the year, to a    *)
(* server that holds predictions stored today, seven and eight days ago    *)
(***************************************************************************)
\* every day of a year of 365 days
Days == 1..DaysBefore(13)

\* the row that a valid predict request of user u stored `ago` days ago,
\* with the loaded model or in demo mode
StoredRow(u, age, ago, demo) ==
    [Prediction(u,
                IF demo THEN demo_prediction
                ELSE predict_risk(trained_predictor,
                                  PatientData(Body(Num(age), Num(100), Num(25)))),
                PatientData(Body(Num(age), Num(100), Num(25))))
        EXCEPT !.created_at = now - ago]

StoredRows ==
    {StoredRow(u, age, ago, demo) :
        u \in {1, 2}, age \in {0, 70}, ago \in {0, 7, 8}, demo \in BOOLEAN}

InitStatistics ==
    /\ users = (1 :> User("n", Mail("a"), "pw1")) @@ (2 :> User("n", Mail("b"), "pw2"))
    /\ nextUserId = 3
    /\ now \in Days
    /\ \E n \in 0..MaxRows :
        /\ predictions \in [1..n -> StoredRows]
        /\ nextPredId = n + 1
    /\ \E h \in {NoHeader, access_token(1)} :
            response = Received("statistics", [auth |-> h])
    /\ ML_SERVICE_AVAILABLE = TRUE
    /\ probability = 0
    /\ risk_level = ""
    /\ confidence = ""
    /\ NoService
    /\ _predictor = trained_predictor
    /\ patient = <<>>
    /\ processed_features = NoFeatures
    /\ identified = NoFactors
    /\ recommended = NoRecommendations

NextStatistics == GetStatistics \/ Respond

SpecStatistics == InitStatistics /\ [][NextStatistics]_vars

(***************************************************************************)
(* The properties                                                          *)
(***************************************************************************)
\* the request of handler h has been served
Answered(h) == response.phase = "done" /\ response.handler = h

\* the header carries a token user_token_<id>_... of a user of us that is active
Authenticates(h, us) ==
    /\ h.present /\ h.bearer /\ h.prefix /\ h.isInt
    /\ h.id \in DOMAIN us
    /\ us[h.id].is_active

\* a number outside, or inside, the closed interval [lo, hi]
Outside(v, lo, hi) == v.k = "num" /\ (v.n < lo \/ v.n > hi)
Inside(v, lo, hi) == v.k = "num" /\ lo <= v.n /\ v.n <= hi

\* C1: _classify_risk_level(p) is LOW for p < 0.3, MODERATE for
\* 0.3 <= p < 0.7 and HIGH for p >= 0.7; 0.3 gives MODERATE, 0.7 gives HIGH.
C1_RiskLevelBands ==
    risk_level # "" =>
        /\ (probability < 30) => (risk_level = "LOW")
        /\ (probability >= 30 /\ probability < 70) => (risk_level = "MODERATE")
        /\ (probability >= 70) => (risk_level = "HIGH")
        /\ (probability = 30) => (risk_level = "MODERATE")
        /\ (probability = 70) => (risk_level = "HIGH")

C1_Witness == probability = 30 /\ risk_level = "MODERATE"

\* C2: _calculate_confidence(p) is HIGH for p < 0.2 or p > 0.8, otherwise
\* MEDIUM for p < 0.4 or p > 0.6, otherwise LOW; 0.2 and 0.8 give MEDIUM,
\* 0.4 and 0.6 give LOW.
C2_ConfidenceBands ==
    confidence # "" =>
        /\ (probability < 20 \/ probability > 80) => (confidence = "HIGH")
        /\ (/\ ~(probability < 20 \/ probability > 80)
            /\ (probability < 40 \/ probability > 60)) => (confidence = "MEDIUM")
        /\ (probability >= 40 /\ probability <= 60) => (confidence = "LOW")
        /\ (probability \in {20, 80}) => (confidence = "MEDIUM")
        /\ (probability \in {40, 60}) => (confidence = "LOW")

C2_Witness == probability = 80 /\ confidence = "MEDIUM"

\* C3: a predict request with every required field whose age is outside
\* [0,120], or glucose outside [0,500], or BMI outside [10,60] is answered
\* 400 and stores no prediction, authenticated or not; a request whose three
\* values lie in their intervals, the bounds included, is not refused.
C3_RangeChecked ==
    (/\ Answered("predict")
     /\ response.request.is_json
     /\ \A f \in RequiredSet : response.request.data[f].k \notin {"absent", "null"})
    => LET data == response.request.data IN
        /\ (\/ Outside(data["age"], 0, 120)
            \/ Outside(data["avg_glucose_level"], 0, 500)
            \/ Outside(data["bmi"], 10, 60))
           => (/\ response.status = 400
               /\ predictions = response.before.predictions)
        /\ (/\ Inside(data["age"], 0, 120)
            /\ Inside(data["avg_glucose_level"], 0, 500)
            /\ Inside(data["bmi"], 10, 60))
           => (response.status = 200)

\* an authenticated request with a BMI of 61 was refused
C3_Witness ==
    /\ Answered("predict")
    /\ Authenticates(response.request.auth, users)
    /\ response.request.data = Body(Num(120), Num(500), Num(61))
    /\ response.status = 400

\* C4: a predict request with a non-empty body that lacks required fields
\* (absent or null) is answered 400 with missing_fields listing exactly
\* those fields in the order of required_fields, whatever the other values
\* are, and stores no prediction.
C4_MissingFields ==
    LET data == response.request.data
        lacking == {f \in RequiredSet : data[f].k \in {"absent", "null"}}
    IN (/\ Answered("predict")
        /\ response.request.is_json
        /\ \E f \in Fields : data[f].k # "absent"
        /\ lacking # {})
       => /\ response.status = 400
          /\ "missing_fields" \in DOMAIN response.body
          /\ LET listed == response.body.missing_fields IN
                /\ {listed[i] : i \in DOMAIN listed} = lacking
                /\ Len(listed) = Cardinality(lacking)
                /\ \A i, j \in DOMAIN listed :
                    i < j => FieldIndex(listed[i]) < FieldIndex(listed[j])
          /\ predictions = response.before.predictions

\* an authenticated request with a null gender, no hypertension key and an
\* age of 121 was answered with the two missing fields
C4_Witness ==
    /\ Answered("predict")
    /\ Authenticates(response.request.auth, users)
    /\ response.request.data["age"] = Num(121)
    /\ response.request.data["gender"] = Null
    /\ response.request.data["hypertension"] = Absent
    /\ response.status = 400
    /\ response.body.missing_fields = <<"gender", "hypertension">>

\* C5: a signup whose email equals, ignoring case, the email of a registered
\* user is answered 400 and creates no user; no two stored users have emails
\* that are equal ignoring case.
C5_UniqueEmail ==
    /\ \A u, v \in DOMAIN users :
        u # v => ~SameIgnoringCase(users[u].email, users[v].email)
    /\ (/\ Answered("signup")
        /\ \E u \in DOMAIN response.before.users :
            SameIgnoringCase(response.before.users[u].email, response.request.email))
       => (/\ response.status = 400
           /\ users = response.before.users)

\* a signup with the registered email in upper case was refused
C5_Witness ==
    /\ Answered("signup")
    /\ response.request.email = Email("a", TRUE, "none", TRUE)
    /\ \E u \in DOMAIN response.before.users :
        response.before.users[u].email = Mail("a")
    /\ response.status = 400

\* C6: the user_id of every stored prediction is the id of an existing user;
\* a prediction created by predict has the user_id of the active user named
\* by the token of the request.
C6_PredictionOwner ==
    /\ \A p \in DOMAIN predictions : predictions[p].user_id \in DOMAIN users
    /\ Answered("predict") =>
        \A p \in DOMAIN predictions \ DOMAIN response.before.predictions :
            /\ Authenticates(response.request.auth, response.before.users)
            /\ predictions[p].user_id = response.request.auth.id

\* the second user has stored a prediction while the first one owns one too
C6_Witness ==
    /\ Answered("predict")
    /\ response.status = 200
    /\ \E p \in DOMAIN predictions \ DOMAIN response.before.predictions :
        predictions[p].user_id = 2
    /\ \E q \in DOMAIN response.before.predictions :
        response.before.predictions[q].user_id = 1

\* C7: deleting a user removes every prediction of that user and no
\* prediction of any other user.
C7_CascadeDelete ==
    Answered("delete_user") =>
        LET u == response.request.user_id
            was == response.before.predictions
        IN /\ u \notin DOMAIN users
           /\ \A p \in DOMAIN predictions : predictions[p].user_id # u
           /\ \A p \in DOMAIN was :
                was[p].user_id # u =>
                    (p \in DOMAIN predictions /\ predictions[p] = was[p])

\* a user owning a prediction was deleted while another user owned one too
C7_Witness ==
    /\ Answered("delete_user")
    /\ \E p, q \in DOMAIN response.before.predictions :
        /\ response.before.predictions[p].user_id = response.request.user_id
        /\ response.before.predictions[q].user_id # response.request.user_id
        /\ p \notin DOMAIN predictions
        /\ q \in DOMAIN predictions

\* C8: for an authenticated user who owns no prediction, statistics is
\* answered 200 with every aggregate 0, whatever the other users own.
C8_EmptyStatistics ==
    (/\ Answered("statistics")
     /\ Authenticates(response.request.auth, users)
     /\ \A p \in DOMAIN predictions :
            predictions[p].user_id # response.request.auth.id)
    => /\ response.status = 200
       /\ response.body.statistics =
            [total_predictions |-> 0,
             risk_distribution |-> [LOW |-> 0, MODERATE |-> 0, HIGH |-> 0],
             average_age |-> 0,
             recent_predictions |-> 0,
             average_probability |-> 0]

\* the statistics of a user without predictions, another user owning one
C8_Witness ==
    /\ Answered("statistics")
    /\ Authenticates(response.request.auth, users)
    /\ DOMAIN predictions # {}
    /\ \A p \in DOMAIN predictions :
            predictions[p].user_id # response.request.auth.id
    /\ response.status = 200

\* C9: history, statistics and delete-prediction are answered 401 and change
\* no table unless the request carries a token user_token_<id>_... of an
\* existing user who is active at that time; so the token of a user who was
\* deactivated is refused.
C9_Unauthorized ==
    (/\ response.phase = "done"
     /\ response.handler \in {"history", "statistics", "delete"}
     /\ ~Authenticates(response.request.auth, response.before.users))
    => /\ response.status = 401
       /\ users = response.before.users
       /\ predictions = response.before.predictions

\* the token of a user who stored a prediction with it, and was deactivated
\* since, is refused
C9_Witness ==
    /\ response.phase = "done"
    /\ response.handler \in {"history", "statistics", "delete"}
    /\ response.request.auth = access_token(1)
    /\ 1 \in DOMAIN users
    /\ ~users[1].is_active
    /\ \E p \in DOMAIN predictions : predictions[p].user_id = 1
    /\ response.status = 401

\* C10: with both fields present, login answers 200 with a token exactly
\* when some user has the email (ignoring case), the password and is active,
\* and then sets the last_login of that user only; otherwise it answers 401
\* without a token and changes no user.
C10_Login ==
    (/\ Answered("login")
     /\ response.request.is_json
     /\ response.request.email # NoEmail
     /\ response.request.password # "")
    => LET was == response.before.users
           matching == {u \in DOMAIN was :
                            /\ SameIgnoringCase(was[u].email, response.request.email)
                            /\ was[u].password_hash = [hashed |-> response.request.password]
                            /\ was[u].is_active}
       IN IF matching # {}
          THEN /\ response.status = 200
               /\ "access_token" \in DOMAIN response.body
               /\ response.body.access_token.id \in matching
               /\ DOMAIN users = DOMAIN was
               /\ \A u \in DOMAIN users :
                    users[u] = IF u \in matching
                               THEN [was[u] EXCEPT !.last_login = At(now)]
                               ELSE was[u]
          ELSE /\ response.status = 401
               /\ "access_token" \notin DOMAIN response.body
               /\ users = was

\* a login with the email in upper case succeeded, a second user being there
C10_Witness ==
    /\ Answered("login")
    /\ response.status = 200
    /\ response.request.email = Email("a", TRUE, "none", TRUE)
    /\ Cardinality(DOMAIN users) = 2
    /\ \E u \in DOMAIN users :
        /\ users[u].last_login = At(now)
        /\ response.before.users[u].last_login # At(now)

\* the categorical fields, and what preprocess_features was run with
Categorical == {"gender", "ever_married", "work_type", "Residence_type", "smoking_status"}
HasEncoder(f) == f \in DOMAIN _predictor.label_encoders
Preprocessed == processed_features.called

\* C11: in preprocess_features, for each categorical field that is in the
\* data and has an encoder, a value that is one of the encoder's classes is
\* replaced by the code of that class (its place in classes_, from 0), and
\* any other value is replaced by 0; no error is raised.
C11_CategoryCodes ==
    Preprocessed =>
        \A f \in Categorical :
            (HasEncoder(f) /\ patient[f].k # "absent") =>
                LET classes == _predictor.label_encoders[f]
                    known == {i \in DOMAIN classes :
                                patient[f].k = "text" /\ classes[i] = patient[f].s}
                IN  /\ known # {} =>
                        \E i \in known : processed_features.encoded[f] = Num(i - 1)
                    /\ known = {} => processed_features.encoded[f] = Num(0)

\* 'children' became 4 and 'Mars', which is no residence type, became 0
C11_Witness ==
    /\ Preprocessed
    /\ HasEncoder("work_type") /\ HasEncoder("Residence_type")
    /\ patient["work_type"] = Text("children")
    /\ processed_features.encoded["work_type"] = Num(4)
    /\ patient["Residence_type"] = Text("Mars")
    /\ processed_features.encoded["Residence_type"] = Num(0)

\* the steps of preprocess_features that fail
EncodingFails ==
    \E f \in {"gender", "ever_married", "Residence_type"} :
        ~HasEncoder(f) /\ patient[f].k \notin {"absent", "text"}
ConversionFails ==
    \E i \in DOMAIN processed_features.feature_vector :
        processed_features.feature_vector[i].k = "raise"
ScalingFails ==
    /\ ~_predictor.scaler.is_none
    /\ Len(_predictor.scaler.mean_) # Len(_predictor.feature_names)

\* C12: preprocess_features never raises; whenever a step of the encoding,
\* of the conversion to float or of the scaling fails, it returns
\* len(feature_names) zeros.
C12_ZerosOnFailure ==
    Preprocessed =>
        /\ \A i \in DOMAIN processed_features.scaled_features :
                processed_features.scaled_features[i].k # "raise"
        /\ (EncodingFails \/ ConversionFails \/ ScalingFails) =>
                processed_features.scaled_features =
                    [i \in 1..Len(_predictor.feature_names) |-> Num(0)]

\* an age that float() does not read, with the fallback predictor
C12_Witness ==
    /\ Preprocessed
    /\ _predictor = fallback_predictor
    /\ patient["age"] = Text("old")
    /\ ~EncodingFails /\ ConversionFails /\ ~ScalingFails
    /\ Len(processed_features.scaled_features) = 11
    /\ \A i \in 1..11 : processed_features.scaled_features[i] = Num(0)

\* C13: when preprocess_features does not fail, the vector passed to the
\* scaler has one entry per name of feature_names, entry i being the encoded
\* value of feature_names[i] in the patient data, and 0.0 for every name
\* that is not in the patient data.
C13_FeatureOrder ==
    (Preprocessed /\ ~EncodingFails /\ ~ConversionFails /\ ~ScalingFails) =>
        LET names == _predictor.feature_names
            vector == processed_features.feature_vector
        IN  /\ Len(vector) = Len(names)
            /\ \A i \in DOMAIN names :
                vector[i] = IF patient[names[i]].k = "absent"
                            THEN Num(0)
                            ELSE processed_features.encoded[names[i]]

\* C14: for patient data with numeric age, glucose and BMI the list of
\* _identify_risk_factors is never empty, and holds the placeholder exactly
\* when no rule applies, the placeholder then being its only element.
Placeholder == Factor("No major risk factors identified", 0)

IsNumeric(v) == v.k \in {"num", "nan", "absent"}

Above(v, n) == v.k = "num" /\ v.n > n

SomeRuleApplies ==
    \/ Above(patient["age"], 50)
    \/ (patient["hypertension"].k = "num" /\ patient["hypertension"].n # 0)
    \/ (patient["heart_disease"].k = "num" /\ patient["heart_disease"].n # 0)
    \/ Above(patient["avg_glucose_level"], 100)
    \/ Above(patient["bmi"], 25)
    \/ patient["smoking_status"] \in {Text("smokes"), Text("Smokes"),
                                      Text("formerly smoked")}
    \/ (patient["family_history_stroke"].k = "num"
            /\ patient["family_history_stroke"].n # 0)
    \/ patient["alcohol_consumption"] \in {Text("Heavy"), Text("heavy")}

C14_Placeholder ==
    (/\ identified.called
     /\ IsNumeric(patient["age"])
     /\ IsNumeric(patient["avg_glucose_level"])
     /\ IsNumeric(patient["bmi"]))
    => LET risk_factors == identified.risk_factors
           has_placeholder == \E i \in DOMAIN risk_factors :
                                    risk_factors[i] = Placeholder
       IN  /\ Len(risk_factors) >= 1
           /\ has_placeholder <=> ~SomeRuleApplies
           /\ has_placeholder => risk_factors = <<Placeholder>>

\* a patient of 50 with a glucose of 100 and a BMI of 25 who never smoked
C14_Witness ==
    /\ identified.called
    /\ identified.risk_factors = <<Placeholder>>
    /\ patient["age"] = Num(50)
    /\ patient["avg_glucose_level"] = Num(100)
    /\ patient["bmi"] = Num(25)
    /\ patient["smoking_status"] = Text("never smoked")

\* C15: the list of _generate_recommendations holds the disclaimer once, as
\* its last element, after the block of the risk level (the HIGH block for
\* any level but LOW and MODERATE) and then at most one recommendation each
\* for smoking, weight, hypertension and glucose, in this order.
BlockOf(level) ==
    IF level = "LOW" THEN LOW_block
    ELSE IF level = "MODERATE" THEN MODERATE_block
    ELSE HIGH_block

AdviceRank(text) ==
    CASE text = smoking_advice -> 1
      [] text = weight_advice -> 2
      [] text = hypertension_advice -> 3
      [] text = glucose_advice -> 4
      [] OTHER -> 0

C15_Recommendations ==
    recommended.called =>
        LET recommendations == recommended.recommendations
            n == Len(recommendations)
            b == Len(BlockOf(risk_level))
        IN  /\ n > b
            /\ recommendations[n] = disclaimer
            /\ \A i \in 1..(n - 1) : recommendations[i] # disclaimer
            /\ SubSeq(recommendations, 1, b) = BlockOf(risk_level)
            /\ \A i \in (b + 1)..(n - 1) : AdviceRank(recommendations[i]) # 0
            /\ \A i, j \in (b + 1)..(n - 1) :
                i < j => AdviceRank(recommendations[i]) < AdviceRank(recommendations[j])

\* an unknown level, with factors of obesity, overweight and smoking
C15_Witness ==
    /\ risk_level = "UNKNOWN"
    /\ identified.risk_factors = <<Factor("Obesity (BMI: {:.1f})", 0),
                                   Factor("Overweight (BMI: {:.1f})", 0),
                                   Factor("Passive SMOKING", 0)>>
    /\ recommended.called
    /\ recommended.recommendations =
            HIGH_block \o <<smoking_advice, weight_advice, disclaimer>>

\* the prediction the delete request names was, before it, a row of the
\* user its token names
OwnedBefore ==
    /\ response.request.prediction_id \in DOMAIN response.before.predictions
    /\ response.before.predictions[response.request.prediction_id].user_id
            = response.request.auth.id

\* C20: a delete request of an authenticated user removes a prediction only
\* when the id names a prediction of that user, and then that prediction and
\* no other; when the id names no prediction, or one of another user, the
\* answer is 404 and the stored predictions are what they were.
C20_DeleteOwned ==
    (Answered("delete")
        /\ Authenticates(response.request.auth, response.before.users)) =>
        LET was == response.before.predictions
            id == response.request.prediction_id
        IN /\ predictions # was =>
                /\ OwnedBefore
                /\ predictions = [p \in DOMAIN was \ {id} |-> was[p]]
           /\ ~OwnedBefore => (response.status = 404 /\ predictions = was)

\* a user asked to delete the prediction of another user, and a user
\* deleted one of their own two predictions
C20_Witness ==
    /\ Answered("delete")
    /\ Authenticates(response.request.auth, response.before.users)
    /\ \/ /\ response.request.prediction_id \in DOMAIN response.before.predictions
          /\ ~OwnedBefore
          /\ response.status = 404
       \/ /\ OwnedBefore
          /\ response.status = 200
          /\ Cardinality(DOMAIN predictions) = 1

\* the handlers of the API
Handlers ==
    {"signup", "login", "validate", "predict", "history", "statistics", "delete"}

\* what a stored prediction holds of its owner, its result, its input and
\* its model
Stored(row) ==
    [user_id |-> row.user_id,
     risk_level |-> row.risk_level,
     probability_score |-> row.probability_score,
     confidence |-> row.confidence,
     risk_factors |-> row.risk_factors,
     recommendations |-> row.recommendations,
     input |-> <<row.age, row.gender, row.hypertension, row.heart_disease,
                 row.ever_married, row.work_type, row.residence_type,
                 row.avg_glucose_level, row.bmi, row.smoking_status,
                 row.family_history_stroke, row.alcohol_consumption>>,
     model_name |-> row.model_name,
     model_version |-> row.model_version]

\* C16: a request to the API leaves every prediction that was stored before
\* it either as it was (owner, result, risk factors, recommendations, input,
\* model name and version) or deleted.
C16_StoredUnchanged ==
    (response.phase = "done" /\ response.handler \in Handlers) =>
        \A p \in DOMAIN response.before.predictions :
            p \in DOMAIN predictions =>
                Stored(predictions[p]) = Stored(response.before.predictions[p])

\* a predict request stored a row while a row of another user was there
C16_Witness ==
    /\ Answered("predict")
    /\ \E p \in DOMAIN response.before.predictions, q \in DOMAIN predictions :
        /\ q \notin DOMAIN response.before.predictions
        /\ p \in DOMAIN predictions
        /\ predictions[q].user_id # predictions[p].user_id
        /\ predictions[p].risk_factors # json_dumps(<<>>)

\* C17: a handler that meets an unexpected exception rolls the transaction
\* back and answers 500, and the tables are what they were before the
\* request.
C17_RollbackAnd500 ==
    (response.phase = "done" /\ response.handler \in Handlers /\ response.raised) =>
        /\ response.status = 500
        /\ response.rollback
        /\ users = response.before.users
        /\ predictions = response.before.predictions

\* the calls of predict_stroke_risk that have returned
PredictCalls == {i \in DOMAIN calls : calls[i].call = "predict_stroke_risk"}

\* patient data that passes the range checks of predict
ValidPatient(d) ==
    /\ Inside(d["age"], 0, 120)
    /\ Inside(d["avg_glucose_level"], 0, 500)
    /\ Inside(d["bmi"], 10, 60)

\* C18: whatever the interleaving of the calls of get_predictor, the
\* predictor is constructed at most once, every call gets the same object,
\* and the method called on it leaves its model, scaler, encoders and
\* feature names as they were.
C18_Singleton ==
    /\ constructed <= 1
    /\ \A i, j \in DOMAIN calls :
            calls[i].predictor.instance = calls[j].predictor.instance
    /\ \A i \in DOMAIN calls :
        /\ calls[i].self_after.model = calls[i].predictor.model
        /\ calls[i].self_after.scaler = calls[i].predictor.scaler
        /\ calls[i].self_after.label_encoders = calls[i].predictor.label_encoders
        /\ calls[i].self_after.feature_names = calls[i].predictor.feature_names

ValidPredict ==
    /\ response.request.is_json
    /\ missing_fields(response.request.data) = <<>>
    /\ Inside(response.request.data["age"], 0, 120)
    /\ Inside(response.request.data["avg_glucose_level"], 0, 500)
    /\ Inside(response.request.data["bmi"], 10, 60)

\* the rows that the request added
NewRows == DOMAIN predictions \ DOMAIN response.before.predictions

\* the rows that were there before the request are there as they were
OldRowsKept ==
    \A p \in DOMAIN response.before.predictions :
        p \in DOMAIN predictions /\ predictions[p] = response.before.predictions[p]

\* C21 as it is stated: a valid predict request is answered 200 with the
\* prediction; it adds exactly one row, of the caller, when the token names
\* an active user, and no row when it does not.
C21_AsStated ==
    (Answered("predict") /\ ValidPredict) =>
        /\ response.status = 200
        /\ "prediction" \in DOMAIN response.body
        /\ OldRowsKept
        /\ IF Authenticates(response.request.auth, response.before.users)
           THEN /\ Cardinality(NewRows) = 1
                /\ \A p \in NewRows :
                        predictions[p].user_id = response.request.auth.id
           ELSE NewRows = {}

\* C21, amended: the same, the one row being added unless storing it raised
\* and was rolled back.
C21_PredictStores ==
    (Answered("predict") /\ ValidPredict) =>
        /\ response.status = 200
        /\ "prediction" \in DOMAIN response.body
        /\ OldRowsKept
        /\ IF Authenticates(response.request.auth, response.before.users)
                /\ ~response.rollback
           THEN /\ Cardinality(NewRows) = 1
                /\ \A p \in NewRows :
                        predictions[p].user_id = response.request.auth.id
           ELSE NewRows = {}

\* a valid request of an active user was answered 200 and added its row
\* beside a row that was there
C21_Witness ==
    /\ Answered("predict")
    /\ ValidPredict
    /\ Authenticates(response.request.auth, response.before.users)
    /\ ~response.rollback
    /\ response.status = 200
    /\ Cardinality(NewRows) = 1
    /\ response.before.predictions # <<>>

\* C22: when storing the row of a valid request of an active user raises,
\* the transaction is rolled back, no row is added, and the answer is
\* still 200 with the prediction.
C22_StoreFailure ==
    (/\ Answered("predict")
     /\ ValidPredict
     /\ Authenticates(response.request.auth, response.before.users)
     /\ response.rollback) =>
        /\ predictions = response.before.predictions
        /\ users = response.before.users
        /\ response.status = 200
        /\ "prediction" \in DOMAIN response.body
        /\ response.body.prediction.risk_level \in {"LOW", "MODERATE", "HIGH"}

\* storing failed for a user who had stored a row before
C22_Witness ==
    /\ Answered("predict")
    /\ ValidPredict
    /\ Authenticates(response.request.auth, response.before.users)
    /\ response.rollback
    /\ response.status = 200
    /\ \E p \in DOMAIN predictions :
            predictions[p].user_id = response.request.auth.id

\* C23: history, asked by an authenticated user, is answered with exactly
\* the predictions now stored with that user's id, each once, the newest
\* first, and total_count is their number.
C23_History ==
    (Answered("history")
        /\ Authenticates(response.request.auth, response.before.users)) =>
        /\ response.status = 200
        /\ LET listed == response.body.predictions
               mine == {p \in DOMAIN predictions :
                            predictions[p].user_id = response.request.auth.id}
           IN /\ {listed[i].id : i \in DOMAIN listed} = mine
              /\ Len(listed) = Cardinality(mine)
              /\ \A i \in DOMAIN listed :
                    /\ listed[i].user_id = response.request.auth.id
                    /\ listed[i].created_at = predictions[listed[i].id].created_at
                    /\ listed[i].risk_level = predictions[listed[i].id].risk_level
              /\ \A i, j \in DOMAIN listed :
                    i < j => listed[i].created_at >= listed[j].created_at
              /\ response.body.total_count = Len(listed)

\* the user stored a prediction on each of two days, and both are listed
C23_Witness ==
    /\ Answered("history")
    /\ Authenticates(response.request.auth, response.before.users)
    /\ Len(response.body.predictions) = 2
    /\ response.body.predictions[1].created_at > response.body.predictions[2].created_at

\* statistics was asked by an authenticated user who owns a prediction
OwnerAsked ==
    /\ Answered("statistics")
    /\ Authenticates(response.request.auth, response.before.users)
    /\ predictions_of(response.request.auth.id) # {}

\* C24: recent_predictions is the number of the user's predictions created
\* on or after the day seven days before today, on every day of the year.
C24_RecentPredictions ==
    (OwnerAsked /\ response.status = 200) =>
        response.body.statistics.recent_predictions =
            Cardinality({p \in predictions_of(response.request.auth.id) :
                            predictions[p].created_at >= now - 7})

\* C28: statistics, asked by an authenticated user who owns a prediction,
\* is answered 200 with the aggregates on every day of the year.
C28_EveryDate ==
    OwnerAsked =>
        /\ response.status = 200
        /\ "statistics" \in DOMAIN response.body

\* C29: total_predictions is the number of the user's predictions, the
\* three counts of risk_distribution add up to it, and average_age is the
\* mean of the ages of all of them, those of age 0 too (in tenths of a year).
C29_Totals ==
    (OwnerAsked /\ response.status = 200) =>
        LET mine == predictions_of(response.request.auth.id)
            stats == response.body.statistics
        IN /\ stats.total_predictions = Cardinality(mine)
           /\ stats.risk_distribution.LOW + stats.risk_distribution.MODERATE
                + stats.risk_distribution.HIGH = stats.total_predictions
           /\ stats.average_age =
                Round(SumOver(mine, [p \in mine |-> predictions[p].age.n]),
                      Cardinality(mine), 10)

\* the same patient data with the residence given under Residence_type
UnderResidence_type ==
    [patient EXCEPT !["Residence_type"] = patient["residence_type"],
                    !["residence_type"] = Absent]

\* C25: when the patient data has the key residence_type and not
\* Residence_type, preprocess_features gives the vector it gives for the
\* same value supplied under Residence_type: the Residence_type feature is
\* the category code of the value and every other feature is as usual.
C25_ResidenceAlias ==
    (/\ Preprocessed
     /\ patient["residence_type"].k # "absent"
     /\ patient["Residence_type"].k = "absent") =>
        /\ processed_features.feature_vector =
            feature_vector(_predictor.feature_names,
                with_residence(encoded(_predictor.label_encoders, UnderResidence_type)), 1)
        /\ processed_features.scaled_features =
            preprocess_features(_predictor, UnderResidence_type)

\* a login that succeeded, and a validate request that was answered
LoggedIn == Answered("login") /\ response.status = 200
Validated == Answered("validate")

\* C26: the access token of a successful login of user u is accepted by
\* validate and by get_current_user as the token of exactly u for as long
\* as u exists and is active, whenever it was issued; and validate answers
\* valid: true, with that user, exactly when get_current_user resolves the
\* token of the request to a user.
C26_TokenIdentifies ==
    /\ LoggedIn =>
        /\ response.body.access_token =
                authorization(login_token(response.body.user, response.body.issued_at))
        /\ get_current_user(response.body.access_token) = response.body.user
    /\ \A u \in DOMAIN users : \A t \in Times :
        users[u].is_active =>
            get_current_user(authorization(login_token(u, t))) = u
    /\ Validated =>
        LET current_user == get_current_user(response.request.auth) IN
        /\ response.body.valid <=> current_user # 0
        /\ response.body.valid <=> response.status = 200
        /\ response.body.valid => response.body.user = current_user

\* the token of a user who has logged in was sent to validate and accepted
C26_Witness ==
    /\ Validated
    /\ response.body.valid
    /\ \E u \in DOMAIN users :
        /\ users[u].last_login.set
        /\ response.request.auth = authorization(login_token(u, users[u].last_login.at))
        /\ response.body.user = u

\* C27: in every result of predict_risk, the one returned after an internal
\* failure too, risk_level is _classify_risk_level(probability_score) and
\* confidence is _calculate_confidence(probability_score).
C27_BandsOfResult ==
    \A i \in DOMAIN calls :
        calls[i].call = "predict_stroke_risk" =>
            LET result == calls[i].result IN
            /\ result.risk_level = _classify_risk_level(result.probability_score)
            /\ result.confidence = _calculate_confidence(result.probability_score)

====
